---- MODULE Spec2Model ----
(***************************************************************************)
(* Verification model of the NFL Monte Carlo simulators of this            *)
(* repository: the discrete drive model (src/unnamed/part_002), the        *)
(* hybrid continuous model (src/unnamed/part_001) and the tiered           *)
(* continuous model (src/src/App.jsx).                                     *)
(*                                                                         *)
(* JavaScript numbers are modelled in fixed point.  Every quantity names   *)
(* its scale; the arithmetic on it is exact rational arithmetic, and       *)
(* Math.round is "floor(x + 1/2)".  The IEEE-754 values Infinity,          *)
(* -Infinity and NaN are kept as separate values with the comparison and   *)
(* arithmetic rules of the language.                                       *)
(***************************************************************************)
EXTENDS Integers, Sequences, FiniteSets, TLC

VARIABLES
    \* ---- discrete drive model (part_002) ----
    homeMetrics,      \* estimateScore(...) of the home side
    awayMetrics,      \* estimateScore(...) of the away side
    hfa,              \* effectiveHFA, in tenths of a point
    totalDrives,      \* simulateGameDiscrete locals
    homeDrives,
    awayDrives,
    homeScore,
    awayScore,
    d,                \* loop counter of the running drive loop
    pc,               \* position inside simulateGameDiscrete / simulateDrive
    drive,            \* locals and return value of the last simulateDrive
    \* ---- Monte Carlo run (all three simulators) ----
    variant,          \* "App" (App.jsx), "part_001" (hybrid), "part_002" (discrete)
    numSimulations,   \* settings.numSimulations / numSimulations
    run,              \* what the run computes before its trial loop
    i,                \* trial loop counter
    homeScores,       \* sample arrays
    awayScores,
    totals,
    margins,          \* results.margins (App.jsx), spreads (part_002)
    simulationResults,
    mcpc,             \* position inside the run
    teamDB,           \* the loaded team rows, by team name
    teamList,         \* the team names offered for selection
    homeTeam,         \* the selected teams ("" when none)
    awayTeam,
    uploadStatus,     \* "none", "loaded" or "error"
    isSimulating      \* App.jsx line 57

discreteVars == <<homeMetrics, awayMetrics, hfa, totalDrives, homeDrives,
                  awayDrives, homeScore, awayScore, d, pc, drive>>

mcVars == <<variant, numSimulations, run, i, homeScores, awayScores, totals,
            margins, simulationResults, mcpc>>

dbVars == <<teamDB, teamList, homeTeam, awayTeam, uploadStatus, isSimulating>>

vars == <<discreteVars, mcVars, dbVars>>

\* the JavaScript value null
Null == [null |-> TRUE]

\* no Monte Carlo run in progress
IdleMC ==
    /\ variant = "none"
    /\ numSimulations = 0
    /\ run = Null
    /\ i = 0
    /\ homeScores = <<>> /\ awayScores = <<>> /\ totals = <<>> /\ margins = <<>>
    /\ simulationResults = Null
    /\ mcpc = "idle"

\* no team sheet loaded
IdleDB ==
    /\ teamDB = <<>>
    /\ teamList = <<>>
    /\ homeTeam = <<>> /\ awayTeam = <<>>
    /\ uploadStatus = "none"
    /\ isSimulating = FALSE

(***************************************************************************)
(* Scales of the fixed-point representation.                               *)
(***************************************************************************)
DiffScale  == 10^3          \* epa_diff, sr_diff, rz_diff, strength_adj: 1/1000
LogitScale == 12 * 5000     \* logits: 1/60000 (hfa / 12 stays exact)
ProbScale  == 10^6          \* probabilities and uniform draws: 1/1000000
DriveScale == 10^2          \* expected drives: 1/100
HfaScale   == 10 * 1        \* home-field advantage: 1/10 point
CoefScale  == 10 * 10       \* intercepts and fg_phi: 1/100
SlopeScale == 10 * 1        \* slope coefficients: 1/10

Min(a, b) == IF a < b THEN a ELSE b
Max(a, b) == IF a > b THEN a ELSE b

\* Math.round(num / den) for den > 0: the nearest integer, halves towards +Infinity
MathRound(num, den) == (2 * num + den) \div (2 * den)

(***************************************************************************)
(* params.driveModel (part_002): intercepts and fg_phi in hundredths,      *)
(* slope coefficients in tenths.                                           *)
(***************************************************************************)
threeOut_a0 == 0 - 110
threeOut_a1 == 26
threeOut_a2 == 8
threeOut_a3 == 15
td_b0 == 0 - 85
td_b1 == 30
td_b2 == 6
td_b3 == 12
fg_phi == 30

\* slope (1/10) times differential (1/1000), as a logit (1/60000)
CoefTimes(coef, diff) == coef * diff * (LogitScale \div (SlopeScale * DiffScale))
\* an intercept (1/100) as a logit
Intercept(coef) == coef * (LogitScale \div CoefScale)

(***************************************************************************)
(* sigmoid(x) = 1 / (1 + exp(-x)) on the clamped range [-8, 8]: tabulated  *)
(* every quarter logit (rounded to 1e-6) and interpolated linearly between *)
(* neighbouring entries.                                                   *)
(***************************************************************************)
SigmoidTable == <<
    335, 431, 553, 710, 911, 1170, 1501, 1927,
    2473, 3173, 4070, 5220, 6693, 8577, 10987, 14064,
    17986, 22977, 29312, 37327, 47426, 60087, 75858, 95349,
    119203, 148047, 182426, 222700, 268941, 320821, 377541, 437823,
    500000, 562177, 622459, 679179, 731059, 777300, 817574, 851953,
    880797, 904651, 924142, 939913, 952574, 962673, 970688, 977023,
    982014, 985936, 989013, 991423, 993307, 994780, 995930, 996827,
    997527, 998073, 998499, 998830, 999089, 999290, 999447, 999569,
    999665 >>

LogitClamp == 8 * LogitScale
SigmoidStep == LogitScale \div 4

\* x is a logit in [-LogitClamp, LogitClamp]
sigmoid(x) ==
    LET off  == x + LogitClamp
        idx  == off \div SigmoidStep
        frac == off % SigmoidStep
        lo   == SigmoidTable[idx + 1]
        hi   == IF idx + 2 <= Len(SigmoidTable) THEN SigmoidTable[idx + 2] ELSE lo
    IN  lo + ((hi - lo) * frac) \div SigmoidStep

(***************************************************************************)
(* simulateDrive(metrics, hfa), part_002 lines 212-272.  r1 and r2 are the *)
(* two Math.random() draws; r2 is consumed only when the drive is          *)
(* sustained.  The record holds the function's locals next to its result.  *)
(***************************************************************************)
hfa_logit_PerTenPoints(h) == (h * LogitScale) \div (HfaScale * 10)

hfa_logit(h) == (h * LogitScale) \div (HfaScale * 12)

logit_3out(metrics, h) ==
    Intercept(threeOut_a0)
      - CoefTimes(threeOut_a1, metrics.epa_diff)
      - CoefTimes(threeOut_a2, metrics.sr_diff)
      + CoefTimes(threeOut_a3, metrics.opp_3out_centered)
      - (IF metrics.isHome THEN hfa_logit(h) ELSE 0 - hfa_logit(h))

clamp_3out(metrics, h) == Max(0 - LogitClamp, Min(LogitClamp, logit_3out(metrics, h)))

p_3out(metrics, h) == sigmoid(clamp_3out(metrics, h))

logit_td(metrics, h) ==
    Intercept(td_b0)
      + CoefTimes(td_b1, metrics.epa_diff)
      + CoefTimes(td_b2, metrics.sr_diff)
      + CoefTimes(td_b3, metrics.rz_diff)
      + (metrics.strength_adj * LogitScale) \div DiffScale
      + (IF metrics.isHome THEN hfa_logit(h) ELSE 0 - hfa_logit(h))

clamp_td(metrics, h) == Max(0 - LogitClamp, Min(LogitClamp, logit_td(metrics, h)))

p_td_given_sustain(metrics, h) == sigmoid(clamp_td(metrics, h))

rz_quality_factor_Unbounded(metrics) == 2 * DiffScale - metrics.rz_diff

\* Math.min(1.3, Math.max(0.7, 1 - rz_diff * 0.5)), in 1/2000
rz_quality_factor(metrics) ==
    Min(2600, Max(1400, 2 * DiffScale - metrics.rz_diff))

\* fg_phi * rz_quality_factor * (1 - p_td), then clamped to [0, 1 - p_td]
p_fg_given_sustain(metrics, h) ==
    LET rest == ProbScale - p_td_given_sustain(metrics, h)
        raw  == (((fg_phi * rest) \div CoefScale) * rz_quality_factor(metrics))
                    \div (2 * DiffScale)
    IN  Max(0, Min(rest, raw))

\* the second roll, lines 264-271: TD, FG or empty drive
SustainedOutcome_TwoPoint(ptd, pfg, r2) ==
    IF r2 < ptd THEN <<8, "TD">>
    ELSE IF r2 < ptd + pfg THEN <<3, "FG">>
    ELSE <<0, "Empty">>

SustainedOutcome_FgFirst(ptd, pfg, r2) ==
    IF r2 < pfg THEN <<3, "FG">>
    ELSE IF r2 < ptd + pfg THEN <<7, "TD">>
    ELSE <<0, "Empty">>

SustainedOutcome(ptd, pfg, r2) ==
    IF r2 < ptd THEN <<7, "TD">>
    ELSE IF r2 < ptd + pfg THEN <<3, "FG">>
    ELSE <<0, "Empty">>

\* the locals of simulateDrive that do not depend on the two draws
DriveProbabilities(metrics, h) ==
    [logit_3out |-> clamp_3out(metrics, h),
     p_3out |-> p_3out(metrics, h),
     logit_td |-> clamp_td(metrics, h),
     p_td_given_sustain |-> p_td_given_sustain(metrics, h),
     rz_quality_factor |-> rz_quality_factor(metrics),
     p_fg_given_sustain |-> p_fg_given_sustain(metrics, h)]

\* the two rolls of simulateDrive against the probabilities pr; the second
\* block of locals is computed only after a sustained first roll
SampleDrive(pr, r1, r2) ==
    IF r1 < pr.p_3out
    THEN [score |-> 0, outcome |-> "3out", sustained |-> FALSE,
          r1 |-> r1, r2 |-> 0,
          logit_3out |-> pr.logit_3out, p_3out |-> pr.p_3out,
          logit_td |-> 0, p_td_given_sustain |-> 0,
          rz_quality_factor |-> 2 * DiffScale, p_fg_given_sustain |-> 0]
    ELSE LET res == SustainedOutcome(pr.p_td_given_sustain, pr.p_fg_given_sustain, r2)
         IN [score |-> res[1], outcome |-> res[2], sustained |-> TRUE,
             r1 |-> r1, r2 |-> r2,
             logit_3out |-> pr.logit_3out, p_3out |-> pr.p_3out,
             logit_td |-> pr.logit_td,
             p_td_given_sustain |-> pr.p_td_given_sustain,
             rz_quality_factor |-> pr.rz_quality_factor,
             p_fg_given_sustain |-> pr.p_fg_given_sustain]

simulateDrive(metrics, h, r1, r2) == SampleDrive(DriveProbabilities(metrics, h), r1, r2)

NoDrive == [score |-> 0, outcome |-> "none", sustained |-> FALSE, r1 |-> 0, r2 |-> 0,
            logit_3out |-> 0, p_3out |-> 0, logit_td |-> 0, p_td_given_sustain |-> 0,
            rz_quality_factor |-> 2 * DiffScale, p_fg_given_sustain |-> 0]

(***************************************************************************)
(* simulateGameDiscrete(homeMetrics, awayMetrics, hfa), lines 275-310.     *)
(***************************************************************************)
MIN_TOTAL == 18
MAX_TOTAL == 30
MIN_D == 9
MAX_D == 15

\* Math.max(MIN_TOTAL, Math.min(MAX_TOTAL, Math.round(home.drives + away.drives)))
TotalDrivesOf(hm, am) ==
    Max(MIN_TOTAL, Min(MAX_TOTAL, MathRound(hm.drives + am.drives, DriveScale)))

\* Math.max(-0.6, Math.min(0.6, (home.drives - away.drives) * 0.1)), in 1/1000
tilt_Unbounded(hm, am) ==
    ((hm.drives - am.drives) * DiffScale) \div (10 * DriveScale)

tilt(hm, am) ==
    Max(0 - 600, Min(600, ((hm.drives - am.drives) * DiffScale) \div (10 * DriveScale)))

AllocateDrives_NoShift(hm, am) ==
    LET total == TotalDrivesOf(hm, am)
        h0 == MathRound(total * (DiffScale \div 2) + tilt(hm, am), DiffScale)
        h1 == Max(MIN_D, Min(MAX_D, h0))
    IN  [totalDrives |-> total, homeDrives |-> h1, awayDrives |-> total - h1]

\* the two drive counts after the "safety bounds with total preservation"
AllocateDrives(hm, am) ==
    LET total == TotalDrivesOf(hm, am)
        h0 == MathRound(total * (DiffScale \div 2) + tilt(hm, am), DiffScale)
        h1 == Max(MIN_D, Min(MAX_D, h0))
        a1 == total - h1
        a2 == IF a1 < MIN_D THEN MIN_D ELSE a1
        h2 == IF a1 < MIN_D THEN total - a2 ELSE h1
        a3 == IF a2 > MAX_D THEN MAX_D ELSE a2
        h3 == IF a2 > MAX_D THEN total - a3 ELSE h2
    IN  [totalDrives |-> total, homeDrives |-> h3, awayDrives |-> a3]

(***************************************************************************)
(* Inputs of the discrete model.  estimateScore returns the metrics of a   *)
(* side; its strength_adj is clamped to [-0.2, 0.2] (part_002 line 374).   *)
(***************************************************************************)
GridSpan == 1        \* differentials: multiples of a step, -GridSpan..GridSpan
HfaSpan == 1         \* hfaAdjustment slider: multiples of 3 points
RandSteps == 5       \* Math.random(): the grid k / RandSteps, k < RandSteps
DriveGrid == 80      \* expected drives: quarter drives 0 .. DriveGrid / 4
GameSpan == 2        \* expected drives of a simulated game: 9.0 + k * 1.3

Span == (0 - GridSpan) .. GridSpan

Metrics(dr, epa, sr, rz, opp, str, home) ==
    [drives |-> dr, epa_diff |-> epa, sr_diff |-> sr, rz_diff |-> rz,
     opp_3out_centered |-> opp, strength_adj |-> str, isHome |-> home]

LeagueDrives == 1160      \* params.lg.Drives = 11.6, in 1/100

DriveMetrics ==
    { Metrics(LeagueDrives, epa, sr, rz, opp, str, home) :
        epa \in { k * 150 : k \in Span } \cup { 0 - 3000, 3000 },
        sr  \in { k * 100 : k \in Span },
        rz  \in { k * 700 : k \in Span },
        opp \in { k * 200 : k \in Span },
        str \in { Max(0 - 200, Min(200, k * 200)) : k \in Span },
        home \in BOOLEAN }

HfaGrid == { k * 30 : k \in (0 - HfaSpan) .. HfaSpan }

\* values Math.random() returns: [0, 1), with the largest value below 1
RandGrid == { (k * ProbScale) \div RandSteps : k \in 0 .. (RandSteps - 1) }
                \cup { ProbScale - 1 }

\* the scores simulateDrive can return over the draws of Math.random()
DriveScores(metrics, h) ==
    LET pr == DriveProbabilities(metrics, h)
    IN  { SampleDrive(pr, r1, r2).score : r1 \in RandGrid, r2 \in RandGrid }

NeutralMetrics(dr, home) == Metrics(dr, 0, 0, 0, 0, 0, home)

IdleDiscrete ==
    /\ homeMetrics = NeutralMetrics(LeagueDrives, TRUE)
    /\ awayMetrics = NeutralMetrics(LeagueDrives, FALSE)
    /\ hfa = 0
    /\ totalDrives = 0 /\ homeDrives = 0 /\ awayDrives = 0
    /\ homeScore = 0 /\ awayScore = 0 /\ d = 0
    /\ pc = "idle"
    /\ drive = NoDrive

(***************************************************************************)
(* One call of simulateDrive on any metrics (specification SpecDrive).     *)
(***************************************************************************)
InitDrive ==
    /\ homeMetrics \in DriveMetrics
    /\ awayMetrics = NeutralMetrics(LeagueDrives, FALSE)
    /\ hfa \in HfaGrid
    /\ totalDrives = 0 /\ homeDrives = 0 /\ awayDrives = 0
    /\ homeScore = 0 /\ awayScore = 0 /\ d = 0
    /\ pc = "drive"
    /\ drive = NoDrive
    /\ IdleMC
    /\ IdleDB

DriveOnce ==
    /\ pc = "drive"
    /\ LET pr == DriveProbabilities(homeMetrics, hfa)
       IN  \E r1 \in RandGrid, r2 \in RandGrid : drive' = SampleDrive(pr, r1, r2)
    /\ pc' = "driven"
    /\ UNCHANGED <<homeMetrics, awayMetrics, hfa, totalDrives, homeDrives,
                   awayDrives, homeScore, awayScore, d>>
    /\ UNCHANGED mcVars
    /\ UNCHANGED dbVars

NextDrive == DriveOnce

SpecDrive == InitDrive /\ [][NextDrive]_vars

(***************************************************************************)
(* simulateGameDiscrete as a process: the allocation, then one step per    *)
(* iteration of the two drive loops (specifications SpecAlloc, SpecGame).  *)
(***************************************************************************)
GameStart ==
    /\ pc = "start"
    /\ LET al == AllocateDrives(homeMetrics, awayMetrics)
       IN  /\ totalDrives' = al.totalDrives
           /\ homeDrives' = al.homeDrives
           /\ awayDrives' = al.awayDrives
    /\ homeScore' = 0 /\ awayScore' = 0 /\ d' = 0
    /\ pc' = "home"
    /\ UNCHANGED <<homeMetrics, awayMetrics, hfa, drive>>
    /\ UNCHANGED mcVars
    /\ UNCHANGED dbVars

HomeDrive ==
    /\ pc = "home"
    /\ d < homeDrives
    /\ \E s \in DriveScores(homeMetrics, hfa) : homeScore' = homeScore + s
    /\ d' = d + 1
    /\ UNCHANGED <<homeMetrics, awayMetrics, hfa, totalDrives, homeDrives,
                   awayDrives, awayScore, pc, drive>>
    /\ UNCHANGED mcVars
    /\ UNCHANGED dbVars

\* the home loop ends, the away loop starts at d = 0
HomeLoopEnd ==
    /\ pc = "home"
    /\ ~(d < homeDrives)
    /\ d' = 0
    /\ pc' = "away"
    /\ UNCHANGED <<homeMetrics, awayMetrics, hfa, totalDrives, homeDrives,
                   awayDrives, homeScore, awayScore, drive>>
    /\ UNCHANGED mcVars
    /\ UNCHANGED dbVars

AwayDrive ==
    /\ pc = "away"
    /\ d < awayDrives
    /\ \E s \in DriveScores(awayMetrics, hfa) : awayScore' = awayScore + s
    /\ d' = d + 1
    /\ UNCHANGED <<homeMetrics, awayMetrics, hfa, totalDrives, homeDrives,
                   awayDrives, homeScore, pc, drive>>
    /\ UNCHANGED mcVars
    /\ UNCHANGED dbVars

\* the away loop ends: return { homeScore, awayScore }
GameReturn ==
    /\ pc = "away"
    /\ ~(d < awayDrives)
    /\ pc' = "done"
    /\ UNCHANGED <<homeMetrics, awayMetrics, hfa, totalDrives, homeDrives,
                   awayDrives, homeScore, awayScore, d, drive>>
    /\ UNCHANGED mcVars
    /\ UNCHANGED dbVars

InitAlloc ==
    /\ \E hd \in 0 .. DriveGrid, ad \in 0 .. DriveGrid :
          /\ homeMetrics = NeutralMetrics(hd * (DriveScale \div 4), TRUE)
          /\ awayMetrics = NeutralMetrics(ad * (DriveScale \div 4), FALSE)
    /\ hfa = 0
    /\ totalDrives = 0 /\ homeDrives = 0 /\ awayDrives = 0
    /\ homeScore = 0 /\ awayScore = 0 /\ d = 0
    /\ pc = "start"
    /\ drive = NoDrive
    /\ IdleMC
    /\ IdleDB

NextAlloc == GameStart

SpecAlloc == InitAlloc /\ [][NextAlloc]_vars

GameDrives == { MIN_D * DriveScale + k * 130 : k \in 0 .. GameSpan }

InitGame ==
    /\ \E hd \in GameDrives, ad \in GameDrives :
          /\ homeMetrics = NeutralMetrics(hd, TRUE)
          /\ awayMetrics = NeutralMetrics(ad, FALSE)
    /\ hfa = 30
    /\ totalDrives = 0 /\ homeDrives = 0 /\ awayDrives = 0
    /\ homeScore = 0 /\ awayScore = 0 /\ d = 0
    /\ pc = "start"
    /\ drive = NoDrive
    /\ IdleMC
    /\ IdleDB

NextGame == GameStart \/ HomeDrive \/ HomeLoopEnd \/ AwayDrive \/ GameReturn

SpecGame == InitGame /\ [][NextGame]_vars

(***************************************************************************)
(* Claims on the discrete drive model.                                     *)
(***************************************************************************)

\* C1: after the allocation of simulateGameDiscrete, totalDrives is an
\* integer in [18, 30], homeDrives + awayDrives = totalDrives exactly, and
\* homeDrives and awayDrives both lie in [9, 15], for every pair of
\* expected-drive estimates.
C1_DriveAllocation ==
    pc = "home" =>
        /\ totalDrives \in MIN_TOTAL .. MAX_TOTAL
        /\ homeDrives + awayDrives = totalDrives
        /\ homeDrives \in MIN_D .. MAX_D
        /\ awayDrives \in MIN_D .. MAX_D

\* the tilt pushed the home side above its half of the minimal total, so the
\* away side was raised to MIN_D and the remainder shifted back
C1_Witness ==
    /\ pc = "home"
    /\ totalDrives = MIN_TOTAL
    /\ tilt(homeMetrics, awayMetrics) = 600
    /\ homeDrives = MIN_D
    /\ awayDrives = MIN_D

\* C2 as stated: the three probabilities the sampler of simulateDrive uses
\* (p_3out, p_td_given_sustain, p_fg_given_sustain) are each >= 0 and sum to
\* at most 1, as thresholds of one uniform draw.
C2_SingleDrawThresholds ==
    (pc = "driven" /\ drive.sustained) =>
        /\ drive.p_3out >= 0
        /\ drive.p_td_given_sustain >= 0
        /\ drive.p_fg_given_sustain >= 0
        /\ drive.p_3out + drive.p_td_given_sustain + drive.p_fg_given_sustain
               <= ProbScale

\* C2 amended: simulateDrive samples in two stages with two uniform draws.
\* The first draw gives a three-and-out iff r1 < p_3out, with 0 <= p_3out
\* <= 1.  On a sustained drive the second draw gives a touchdown (7) iff
\* r2 < p_td_given_sustain, a field goal (3) iff p_td_given_sustain <= r2 <
\* p_td_given_sustain + p_fg_given_sustain and an empty drive (0) otherwise,
\* where both conditional probabilities are >= 0 and sum to at most 1.
C2_TwoStageThresholds ==
    pc = "driven" =>
        /\ drive.p_3out >= 0 /\ drive.p_3out <= ProbScale
        /\ (drive.outcome = "3out") <=> (drive.r1 < drive.p_3out)
        /\ drive.sustained <=> ~(drive.r1 < drive.p_3out)
        /\ drive.sustained =>
             LET ptd == drive.p_td_given_sustain
                 pfg == drive.p_fg_given_sustain
             IN  /\ ptd >= 0 /\ pfg >= 0 /\ ptd + pfg <= ProbScale
                 /\ (drive.outcome = "TD") <=> (drive.r2 < ptd)
                 /\ (drive.outcome = "FG") <=> (ptd <= drive.r2 /\ drive.r2 < ptd + pfg)
                 /\ (drive.outcome = "Empty") <=> (drive.r2 >= ptd + pfg)
                 /\ drive.score = (CASE drive.outcome = "TD" -> 7
                                     [] drive.outcome = "FG" -> 3
                                     [] OTHER -> 0)

\* a sustained drive that ended in a field goal although the three
\* probabilities together exceed 1
C2_Witness ==
    /\ pc = "driven"
    /\ drive.outcome = "FG"
    /\ drive.p_3out + drive.p_td_given_sustain + drive.p_fg_given_sustain > ProbScale

\* C3: in simulateDrive p_3out, p_td_given_sustain and p_fg_given_sustain
\* each lie in [0, 1], p_fg_given_sustain <= 1 - p_td_given_sustain, the
\* red-zone quality factor lies in [0.7, 1.3], and both logits are clamped
\* to [-8, 8] before the sigmoid.
C3_DriveProbabilityRanges ==
    pc = "driven" =>
        /\ drive.p_3out \in 0 .. ProbScale
        /\ drive.logit_3out \in (0 - LogitClamp) .. LogitClamp
        /\ drive.p_3out = sigmoid(drive.logit_3out)
        /\ drive.sustained =>
             /\ drive.p_td_given_sustain \in 0 .. ProbScale
             /\ drive.p_fg_given_sustain \in 0 .. ProbScale
             /\ drive.p_fg_given_sustain <= ProbScale - drive.p_td_given_sustain
             /\ drive.rz_quality_factor \in 1400 .. 2600
             /\ drive.logit_td \in (0 - LogitClamp) .. LogitClamp
             /\ drive.p_td_given_sustain = sigmoid(drive.logit_td)

\* a sustained drive whose raw touchdown logit is below -8 and whose raw
\* red-zone factor is above 1.3: both clamps are active
C3_Witness ==
    /\ pc = "driven"
    /\ drive.sustained
    /\ logit_td(homeMetrics, hfa) < 0 - LogitClamp
    /\ drive.logit_td = 0 - LogitClamp
    /\ 2 * DiffScale - homeMetrics.rz_diff > 2600
    /\ drive.rz_quality_factor = 2600

\* score s is made of touchdowns and field goals of at most n drives
Lattice(s, n) ==
    \E a \in 0 .. n :
        /\ s - 7 * a >= 0
        /\ (s - 7 * a) % 3 = 0
        /\ a + (s - 7 * a) \div 3 <= n

\* drives each side has played so far
HomePlayed == IF pc = "home" THEN d ELSE IF pc \in {"away", "done"} THEN homeDrives ELSE 0
AwayPlayed == IF pc = "away" THEN d ELSE IF pc = "done" THEN awayDrives ELSE 0

\* C4: every drive adds exactly 0, 3 or 7 points, so each side's score is
\* always 7a + 3b with a + b at most the number of drives it has played
\* (at most 15, hence at most 105 points); 1, 2, 4, 5, 8 and 11 never occur.
C4_ScoringLattice ==
    [][ /\ homeScore' - homeScore \in {0, 3, 7}
        /\ awayScore' - awayScore \in {0, 3, 7}
        /\ Lattice(homeScore', HomePlayed')
        /\ Lattice(awayScore', AwayPlayed')
        /\ HomePlayed' <= MAX_D /\ AwayPlayed' <= MAX_D
        /\ homeScore' <= 7 * MAX_D /\ awayScore' <= 7 * MAX_D
        /\ {homeScore', awayScore'} \cap {1, 2, 4, 5, 8, 11} = {} ]_vars

\* a finished game with 10 (TD + FG) against 17 (two TDs and a FG)
C4_Witness ==
    /\ pc = "done"
    /\ homeScore = 10
    /\ awayScore = 17

(***************************************************************************)
(* JavaScript numbers that need not be finite.  A finite value is an       *)
(* integer of the scale at hand; Infinity, -Infinity and NaN are the three *)
(* values below, outside every range the model computes with.              *)
(***************************************************************************)
PosInf == 10^9
NegInf == 0 - 10^9
NaN == 0 - 2 * 10^9

IsNaN(x) == x = NaN
IsFinite(x) == x \notin {PosInf, NegInf, NaN}

JsNeg(x) ==
    IF x = NaN THEN NaN
    ELSE IF x = PosInf THEN NegInf
    ELSE IF x = NegInf THEN PosInf
    ELSE 0 - x

\* a + b
JsAdd(a, b) ==
    IF a = NaN \/ b = NaN THEN NaN
    ELSE IF {a, b} = {PosInf, NegInf} THEN NaN
    ELSE IF a = PosInf \/ b = PosInf THEN PosInf
    ELSE IF a = NegInf \/ b = NegInf THEN NegInf
    ELSE a + b

\* a - b
JsSub(a, b) == JsAdd(a, JsNeg(b))

\* (c * x) / den for a finite c and den > 0: 0 * Infinity is NaN
JsScale(c, x, den) ==
    IF x = NaN THEN NaN
    ELSE IF x \in {PosInf, NegInf}
         THEN (IF c = 0 THEN NaN ELSE IF c > 0 THEN x ELSE JsNeg(x))
    ELSE MathRound(c * x, den)

\* Math.max(0, x): NaN stays NaN
JsMax0(x) ==
    IF x = NaN THEN NaN
    ELSE IF x = PosInf THEN PosInf
    ELSE IF x = NegInf THEN 0
    ELSE Max(0, x)

\* Math.round(x / den): Infinity and NaN are returned unchanged
JsRound(x, den) == IF IsFinite(x) THEN MathRound(x, den) ELSE x

(***************************************************************************)
(* The Box-Muller transform of the continuous samplers (App.jsx lines      *)
(* 826-829, part_001 lines 396-400).  The uniform draws are eighths:       *)
(* u = k / 8.  Math.sqrt(-2 * Math.log(u1)) and the two trigonometric      *)
(* factors are tabulated in 1/1000; Math.log(0) is -Infinity.  The sign    *)
(* table holds the sign of the double that Math.cos / Math.sin return      *)
(* (tiny and non-zero at the zeros of the function, exactly 0 only for     *)
(* Math.sin(0)).                                                           *)
(***************************************************************************)
SqrtLogTable == << 2039, 1665, 1401, 1177, 970, 759, 517 >>
CosTable == << 1000, 707, 0, 0 - 707, 0 - 1000, 0 - 707, 0, 707 >>
CosSign  == << 1, 1, 1, 0 - 1, 0 - 1, 0 - 1, 0 - 1, 1 >>
SinTable == << 0, 707, 1000, 707, 0, 0 - 707, 0 - 1000, 0 - 707 >>
SinSign  == << 0, 1, 1, 1, 1, 0 - 1, 0 - 1, 0 - 1 >>

\* Math.sqrt(-2 * Math.log(u1))
BoxMullerR(u1) == IF u1 = 0 THEN PosInf ELSE SqrtLogTable[u1]

\* r * trig, r from BoxMullerR
TimesTrig(r, val, sgn) ==
    IF r = PosInf
    THEN (IF sgn > 0 THEN PosInf ELSE IF sgn < 0 THEN NegInf ELSE NaN)
    ELSE MathRound(r * val, DiffScale)

\* z1 and z2 of the transform, in 1/1000
BoxMuller(u1, u2) ==
    [z1 |-> TimesTrig(BoxMullerR(u1), CosTable[u2 + 1], CosSign[u2 + 1]),
     z2 |-> TimesTrig(BoxMullerR(u1), SinTable[u2 + 1], SinSign[u2 + 1])]

\* Math.sqrt(n) for 0 <= n <= 10^6, rounded down
ISqrt(n) == CHOOSE r \in 0 .. DiffScale : r * r <= n /\ (r + 1) * (r + 1) > n

\* Math.sqrt(1 - rho * rho) in 1/1000, rho in 1/100
Sqrt1mRho2(rho) == ISqrt(DiffScale * DiffScale - (10 * rho) * (10 * rho))

\* rho * z1 + Math.sqrt(1 - rho * rho) * z2, in 1/1000
Correlate(rho, z) ==
    JsAdd(JsScale(rho, z.z1, 100), JsScale(Sqrt1mRho2(rho), z.z2, DiffScale))

PointScale == 10^6       \* noisy scores before rounding: 1/1000000 point
ExpScale == 10 * 1       \* expected points: 1/10 point

\* App.jsx line 822: Math.max(6.5, Math.min(9.5, 5.5 + 0.15 * (expectedPts - 20)))
sigmaTeam(expectedPts) == Max(6500, Min(9500, 5500 + 15 * expectedPts - 3000))

\* Math.round(Math.max(0, mean + z * sd)): mean in 1/10, z and sd in 1/1000
NoisyScore(mean, z, sd) ==
    JsRound(JsMax0(JsAdd(mean * (PointScale \div ExpScale), JsScale(sd, z, 1))),
            PointScale)

\* one trial of simulateGame (App.jsx lines 826-839)
SampleApp(r, u1, u2) ==
    LET z == BoxMuller(u1, u2)
    IN  [homeScore |-> NoisyScore(r.homeExpPts, z.z1, sigmaTeam(r.homeExpPts)),
         awayScore |-> NoisyScore(r.awayExpPts, Correlate(r.rho, z),
                                  sigmaTeam(r.awayExpPts))]

RHO == 20                \* part_001 line 86: const RHO = 0.20

\* one trial of runMonteCarloSimulation (part_001 lines 396-408)
SampleHybrid(r, u1, u2) ==
    LET z == BoxMuller(u1, u2)
    IN  [homeScore |-> NoisyScore(r.homeExpPts, z.z1, r.homeSD),
         awayScore |-> NoisyScore(r.awayExpPts, Correlate(RHO, z), r.awaySD)]

(***************************************************************************)
(* Market lines.  A line that parses is a number of half points h2 / 2     *)
(* plus an offset of off * 0.5e-9 (a typed line such as 44.0000000005);    *)
(* eps = 1e-9 is two offset units.  A field that does not parse is NaN     *)
(* (parseFloat of the cleared input).                                      *)
(***************************************************************************)
Eps == 1 + 1

Line(h2, off) == [kind |-> "num", h2 |-> h2, off |-> off]
NaNLine == [kind |-> "NaN", h2 |-> 0, off |-> 0]

\* -line
LineNeg(line) == [line EXCEPT !.h2 = 0 - @, !.off = 0 - @]

\* x > line + tol * 0.5e-9, for a score, total or margin x
JsGt(x, line, tol) ==
    IF IsNaN(x) \/ line.kind = "NaN" THEN FALSE
    ELSE IF x = PosInf THEN TRUE
    ELSE IF x = NegInf THEN FALSE
    ELSE 2 * x > line.h2 \/ (2 * x = line.h2 /\ 0 > line.off + tol)

\* x < line + tol * 0.5e-9
JsLt(x, line, tol) ==
    IF IsNaN(x) \/ line.kind = "NaN" THEN FALSE
    ELSE IF x = PosInf THEN FALSE
    ELSE IF x = NegInf THEN TRUE
    ELSE 2 * x < line.h2 \/ (2 * x = line.h2 /\ 0 < line.off + tol)

\* Math.abs(x - line) <= tol * 0.5e-9
JsNear(x, line, tol) ==
    /\ IsFinite(x)
    /\ line.kind = "num"
    /\ 2 * x = line.h2
    /\ line.off <= tol /\ 0 - tol <= line.off

(***************************************************************************)
(* toAmericanOdds (App.jsx lines 232-238) of the probability num / den,    *)
(* num a count.  The quotient is NaN for 0 / 0 and for a NaN divisor, and  *)
(* every comparison with NaN is false; it is -0 or negative for a negative *)
(* divisor and Infinity for a positive count over 0.                       *)
(***************************************************************************)
toAmericanOdds_SwappedBranches(prob) ==
    IF IsNaN(prob.den) \/ (prob.num = 0 /\ prob.den = 0) THEN NaN
    ELSE IF prob.den < 0 \/ prob.num <= 0 THEN PosInf
    ELSE IF prob.num >= prob.den THEN NegInf
    ELSE IF 2 * prob.num >= prob.den
         THEN 0 - MathRound(100 * (prob.den - prob.num), prob.num)
         ELSE MathRound(100 * prob.num, prob.den - prob.num)

toAmericanOdds_FlippedSign(prob) ==
    IF IsNaN(prob.den) \/ (prob.num = 0 /\ prob.den = 0) THEN NaN
    ELSE IF prob.den < 0 \/ prob.num <= 0 THEN PosInf
    ELSE IF prob.num >= prob.den THEN NegInf
    ELSE IF 2 * prob.num > prob.den
         THEN 0 - MathRound(100 * prob.num, prob.den - prob.num)
         ELSE MathRound(100 * (prob.den - prob.num), prob.num)

toAmericanOdds(prob) ==
    IF IsNaN(prob.den) \/ (prob.num = 0 /\ prob.den = 0) THEN NaN
    ELSE IF prob.den < 0 \/ prob.num <= 0 THEN PosInf
    ELSE IF prob.num >= prob.den THEN NegInf
    ELSE IF 2 * prob.num >= prob.den
         THEN 0 - MathRound(100 * prob.num, prob.den - prob.num)
         ELSE MathRound(100 * (prob.den - prob.num), prob.num)

(***************************************************************************)
(* The reductions.  Every percentage of the results is count / n * 100;    *)
(* the records keep the count and the divisor n.                           *)
(***************************************************************************)

\* App.jsx lines 866-888 and part_001 lines 428-429: if / else if / else
OverUnderExact(arr, line) ==
    LET over  == Cardinality({ k \in 1 .. Len(arr) : JsGt(arr[k], line, 0) })
        under == Cardinality({ k \in 1 .. Len(arr) : ~JsGt(arr[k], line, 0) /\ JsLt(arr[k], line, 0) })
        push  == Cardinality({ k \in 1 .. Len(arr) : ~JsGt(arr[k], line, 0) /\ ~JsLt(arr[k], line, 0) })
    IN  [line |-> line, overCount |-> over, underCount |-> under, pushCount |-> push]

OverUnderEps_StrictPush(arr, line) ==
    [line |-> line,
     overCount  |-> Cardinality({ k \in 1 .. Len(arr) : JsGt(arr[k], line, Eps) }),
     underCount |-> Cardinality({ k \in 1 .. Len(arr) : JsLt(arr[k], line, 0 - Eps) }),
     pushCount  |-> Cardinality({ k \in 1 .. Len(arr) : JsNear(arr[k], line, Eps - 1) })]

\* part_002 lines 459-470: three filters with eps = 1e-9
OverUnderEps(arr, line) ==
    [line |-> line,
     overCount  |-> Cardinality({ k \in 1 .. Len(arr) : JsGt(arr[k], line, Eps) }),
     underCount |-> Cardinality({ k \in 1 .. Len(arr) : JsLt(arr[k], line, 0 - Eps) }),
     pushCount  |-> Cardinality({ k \in 1 .. Len(arr) : JsNear(arr[k], line, Eps) })]

\* App.jsx lines 898-905: threshold = -spreadLine
SpreadExact(arr, spreadLine) ==
    LET threshold == LineNeg(spreadLine)
        home == Cardinality({ k \in 1 .. Len(arr) : JsGt(arr[k], threshold, 0) })
        away == Cardinality({ k \in 1 .. Len(arr) : ~JsGt(arr[k], threshold, 0) /\ JsLt(arr[k], threshold, 0) })
        push == Cardinality({ k \in 1 .. Len(arr) : ~JsGt(arr[k], threshold, 0) /\ ~JsLt(arr[k], threshold, 0) })
    IN  [line |-> spreadLine, homeCoverCount |-> home, awayCoverCount |-> away,
         pushCount |-> push]

\* part_002 lines 519-528: s + line > eps, s + line < -eps, |s + line| <= eps
SpreadEps(arr, line) ==
    [line |-> line,
     homeCoverCount |-> Cardinality({ k \in 1 .. Len(arr) : JsGt(arr[k], LineNeg(line), Eps) }),
     awayCoverCount |-> Cardinality({ k \in 1 .. Len(arr) : JsLt(arr[k], LineNeg(line), 0 - Eps) }),
     pushCount      |-> Cardinality({ k \in 1 .. Len(arr) : JsNear(arr[k], LineNeg(line), Eps) })]

\* App.jsx line 908, in half points
altLines ==
    << 0 - 28, 0 - 21, 0 - 14, 0 - 13, 0 - 7, 0 - 6, 0 - 5, 0 - 3, 0,
       3, 5, 6, 7, 13, 14, 21, 28 >>

\* the table counting margin >= -line, pushes included
altLinesAnalysis_WithPushes(mar) ==
    [ a \in 1 .. Len(altLines) |->
        [line |-> Line(altLines[a], 0),
         coverCount |-> Cardinality({ k \in 1 .. Len(mar) :
                            ~JsLt(mar[k], LineNeg(Line(altLines[a], 0)), 0)
                              /\ ~IsNaN(mar[k]) })] ]

\* App.jsx lines 909-915: coverCount of margin > -line for every alt line
altLinesAnalysis(mar) ==
    [ a \in 1 .. Len(altLines) |->
        [line |-> Line(altLines[a], 0),
         coverCount |-> Cardinality({ k \in 1 .. Len(mar) :
                            JsGt(mar[k], LineNeg(Line(altLines[a], 0)), 0) })] ]

\* App.jsx lines 961-967: the spread section with its alt-line table
SpreadSection(mar, spreadLine) ==
    LET main == SpreadExact(mar, spreadLine)
    IN  [line |-> main.line, homeCoverCount |-> main.homeCoverCount,
         awayCoverCount |-> main.awayCoverCount, pushCount |-> main.pushCount,
         altLines |-> altLinesAnalysis(mar)]

\* App.jsx lines 859-967 (the sections the claims are about)
calculateResults(hs, as, tot, mar, settings) ==
    LET n == settings.numSimulations
        homeWinCount == Cardinality({ k \in 1 .. Len(mar) : JsGt(mar[k], Line(0, 0), 0) })
        awayWinCount == Cardinality({ k \in 1 .. Len(mar) : ~JsGt(mar[k], Line(0, 0), 0)
                                              /\ JsLt(mar[k], Line(0, 0), 0) })
    IN  [numSimulations |-> n,
         overUnder |-> OverUnderExact(tot, settings.overUnderLine),
         homeTeamOverUnder |-> OverUnderExact(hs, settings.homeTeamTotal),
         awayTeamOverUnder |-> OverUnderExact(as, settings.awayTeamTotal),
         moneyline |-> [homeWinCount |-> homeWinCount,
                        awayWinCount |-> awayWinCount,
                        homeFairOdds |-> toAmericanOdds([num |-> homeWinCount, den |-> n]),
                        awayFairOdds |-> toAmericanOdds([num |-> awayWinCount, den |-> n])],
         spread |-> SpreadSection(mar, settings.spreadLine)]

\* part_001 lines 425-457; a line that is empty or does not parse leaves null
HybridResults(hs, as, tot, n, marketTotal, homeTeamTotal, awayTeamTotal) ==
    [numSimulations |-> n,
     overUnder |-> IF marketTotal.kind = "num"
                   THEN OverUnderExact(tot, marketTotal) ELSE Null,
     homeTeamOverUnder |-> IF homeTeamTotal.kind = "num"
                           THEN OverUnderExact(hs, homeTeamTotal) ELSE Null,
     awayTeamOverUnder |-> IF awayTeamTotal.kind = "num"
                           THEN OverUnderExact(as, awayTeamTotal) ELSE Null]

\* part_002 lines 452-529 and 551-607
DiscreteResults(hs, as, tot, spr, n, marketTotal, marketSpread) ==
    LET homeWins == Cardinality({ k \in 1 .. Len(hs) : hs[k] > as[k] })
        awayWins == Cardinality({ k \in 1 .. Len(as) : as[k] > hs[k] })
        ties == n - homeWins - awayWins
    IN  [numSimulations |-> n,
         overUnder |-> IF marketTotal.kind = "num"
                       THEN OverUnderEps(tot, marketTotal) ELSE Null,
         spreadCoverage |-> IF marketSpread.kind = "num"
                            THEN SpreadEps(spr, marketSpread) ELSE Null,
         winProbabilities |-> [homeWin |-> homeWins, awayWin |-> awayWins, tie |-> ties]]

(***************************************************************************)
(* The Monte Carlo runs (specification SpecMC): App.jsx simulateGame       *)
(* lines 765-848, part_001 runMonteCarloSimulation lines 361-460 and       *)
(* part_002 runMonteCarloSimulation lines 403-611.  One step per trial,    *)
(* then one step for the reduction, which reads the market lines.          *)
(***************************************************************************)
MaxSims == 2         \* numSimulations: 1 .. MaxSims
U1Steps == 2         \* values of the first uniform draw
U2Steps == 3         \* values of the second uniform draw
MaxScoring == 1      \* discrete game: drives per side that may score

\* the eighths a uniform draw is taken from, in the order they are added
UOrder == << 0, 4, 1, 2, 6, 5, 3, 7 >>
UGrid(n) == { UOrder[k] : k \in 1 .. Min(n, Len(UOrder)) }

\* offsets of a typed line from the whole point, in 0.5e-9
OffGrid == { 0 - 2, 0, 1 }

\* the lines a market field may hold: around a whole point, a half point,
\* or nothing that parses
MarketLines(whole, half2) ==
    { Line(2 * whole, off) : off \in OffGrid } \cup { Line(half2, 0), NaNLine }
TeamLines(whole) == { Line(2 * whole, 0), NaNLine }

AppRuns ==
    { [homeExpPts |-> 210, awayExpPts |-> 210, rho |-> 0],
      [homeExpPts |-> 30, awayExpPts |-> 210, rho |-> 60] }

HybridRuns ==
    { [homeExpPts |-> he, awayExpPts |-> 210, homeSD |-> 7220, awaySD |-> 8160] :
        he \in {30, 210} }

DiscreteRuns ==
    { [homeMetrics |-> NeutralMetrics(LeagueDrives, TRUE),
       awayMetrics |-> NeutralMetrics(LeagueDrives, FALSE),
       effectiveHFA |-> 0] }

InitMC ==
    /\ IdleDiscrete
    /\ IdleDB
    /\ variant \in {"App", "part_001", "part_002"}
    /\ numSimulations \in 1 .. MaxSims
    /\ run \in (CASE variant = "App" -> AppRuns
                  [] variant = "part_001" -> HybridRuns
                  [] OTHER -> DiscreteRuns)
    /\ i = 0
    /\ homeScores = <<>> /\ awayScores = <<>> /\ totals = <<>> /\ margins = <<>>
    /\ simulationResults = Null
    /\ mcpc = "loop"

\* sums of k drive scores
RECURSIVE Sums(_, _)
Sums(S, k) == IF k = 0 THEN {0} ELSE { x + y : x \in Sums(S, k - 1), y \in S }

\* the results simulateGameDiscrete can return when at most MaxScoring
\* drives of a side score and its other drives stay empty
GameOutcomes(hm, am, h) ==
    LET al == AllocateDrives(hm, am)
    IN  { [homeScore |-> x, awayScore |-> y] :
            x \in Sums(DriveScores(hm, h), Min(al.homeDrives, MaxScoring)),
            y \in Sums(DriveScores(am, h), Min(al.awayDrives, MaxScoring)) }

\* App.jsx lines 824-845
TrialApp ==
    /\ mcpc = "loop" /\ variant = "App"
    /\ i < numSimulations
    /\ \E u1 \in UGrid(U1Steps), u2 \in UGrid(U2Steps) :
          LET g == SampleApp(run, u1, u2)
          IN  /\ homeScores' = Append(homeScores, g.homeScore)
              /\ awayScores' = Append(awayScores, g.awayScore)
              /\ totals' = Append(totals, JsAdd(g.homeScore, g.awayScore))
              /\ margins' = Append(margins, JsSub(g.homeScore, g.awayScore))
    /\ i' = i + 1
    /\ UNCHANGED <<variant, numSimulations, run, simulationResults, mcpc>>
    /\ UNCHANGED discreteVars
    /\ UNCHANGED dbVars

\* part_001 lines 395-410
TrialHybrid ==
    /\ mcpc = "loop" /\ variant = "part_001"
    /\ i < numSimulations
    /\ \E u1 \in UGrid(U1Steps), u2 \in UGrid(U2Steps) :
          LET g == SampleHybrid(run, u1, u2)
          IN  /\ homeScores' = Append(homeScores, g.homeScore)
              /\ awayScores' = Append(awayScores, g.awayScore)
              /\ totals' = Append(totals, JsAdd(g.homeScore, g.awayScore))
    /\ i' = i + 1
    /\ UNCHANGED <<variant, numSimulations, run, margins, simulationResults, mcpc>>
    /\ UNCHANGED discreteVars
    /\ UNCHANGED dbVars

\* part_002 lines 430-437
TrialDiscrete ==
    /\ mcpc = "loop" /\ variant = "part_002"
    /\ i < numSimulations
    /\ \E game \in GameOutcomes(run.homeMetrics, run.awayMetrics, run.effectiveHFA) :
          /\ homeScores' = Append(homeScores, game.homeScore)
          /\ awayScores' = Append(awayScores, game.awayScore)
          /\ totals' = Append(totals, game.homeScore + game.awayScore)
          /\ margins' = Append(margins, game.homeScore - game.awayScore)
    /\ i' = i + 1
    /\ UNCHANGED <<variant, numSimulations, run, simulationResults, mcpc>>
    /\ UNCHANGED discreteVars
    /\ UNCHANGED dbVars

\* App.jsx line 847: return calculateResults(results, settings, ...)
ReduceApp ==
    /\ mcpc = "loop" /\ variant = "App"
    /\ ~(i < numSimulations)
    /\ \E ou \in MarketLines(50, 101), sp \in MarketLines(0 - 8, 0 - 15),
          ht \in TeamLines(29), at \in TeamLines(21) :
          simulationResults' =
              calculateResults(homeScores, awayScores, totals, margins,
                  [numSimulations |-> numSimulations, overUnderLine |-> ou,
                   homeTeamTotal |-> ht, awayTeamTotal |-> at, spreadLine |-> sp])
    /\ mcpc' = "done"
    /\ UNCHANGED <<variant, numSimulations, run, i, homeScores, awayScores,
                   totals, margins>>
    /\ UNCHANGED discreteVars
    /\ UNCHANGED dbVars

\* part_001 lines 412-458
ReduceHybrid ==
    /\ mcpc = "loop" /\ variant = "part_001"
    /\ ~(i < numSimulations)
    /\ \E ou \in MarketLines(52, 105), ht \in TeamLines(29),
          at \in TeamLines(23) :
          simulationResults' =
              HybridResults(homeScores, awayScores, totals, numSimulations, ou, ht, at)
    /\ mcpc' = "done"
    /\ UNCHANGED <<variant, numSimulations, run, i, homeScores, awayScores,
                   totals, margins>>
    /\ UNCHANGED discreteVars
    /\ UNCHANGED dbVars

\* part_002 lines 439-609
ReduceDiscrete ==
    /\ mcpc = "loop" /\ variant = "part_002"
    /\ ~(i < numSimulations)
    /\ \E ou \in MarketLines(7, 13), sp \in MarketLines(0 - 3, 0 - 7) :
          simulationResults' =
              DiscreteResults(homeScores, awayScores, totals, margins,
                              numSimulations, ou, sp)
    /\ mcpc' = "done"
    /\ UNCHANGED <<variant, numSimulations, run, i, homeScores, awayScores,
                   totals, margins>>
    /\ UNCHANGED discreteVars
    /\ UNCHANGED dbVars

NextMC ==
    \/ TrialApp \/ TrialHybrid \/ TrialDiscrete
    \/ ReduceApp \/ ReduceHybrid \/ ReduceDiscrete

SpecMC == InitMC /\ [][NextMC]_vars

(***************************************************************************)
(* The simulation count of App.jsx (specification SpecConfig): the input   *)
(* stores parseInt(e.target.value) (line 1366), which is NaN for a cleared *)
(* field and zero or negative when typed so; runSimulation (lines          *)
(* 744-763) passes gameSettings to simulateGame without a test, and the    *)
(* loop of line 825 compares i < numSims.                                  *)
(***************************************************************************)
ConfigCounts == { NaN, 0 - 1, 0 } \cup (1 .. MaxSims)

InitConfig ==
    /\ IdleDiscrete
    /\ IdleDB
    /\ variant = "App"
    /\ numSimulations \in ConfigCounts
    /\ run \in AppRuns
    /\ i = 0
    /\ homeScores = <<>> /\ awayScores = <<>> /\ totals = <<>> /\ margins = <<>>
    /\ simulationResults = Null
    /\ mcpc = "loop"

NextConfig == TrialApp \/ ReduceApp

SpecConfig == InitConfig /\ [][NextConfig]_vars

(***************************************************************************)
(* The fair odds of the moneyline (specification SpecOdds): App.jsx lines  *)
(* 954-959 call toAmericanOdds(homeWinCount / n) for a count of 0 .. n.    *)
(***************************************************************************)
MaxN == 20           \* numSimulations of the odds conversion: 1 .. MaxN
BigN == 401          \* and one large run: 200 / 401 gives the ratio 100.5

InitOdds ==
    /\ IdleDiscrete
    /\ IdleDB
    /\ variant = "App"
    /\ numSimulations \in (1 .. MaxN) \cup {BigN}
    /\ run \in { [homeWinCount |-> k] : k \in 0 .. Max(MaxN, BigN) }
    /\ run.homeWinCount <= numSimulations
    /\ i = 0
    /\ homeScores = <<>> /\ awayScores = <<>> /\ totals = <<>> /\ margins = <<>>
    /\ simulationResults = Null
    /\ mcpc = "odds"

\* App.jsx line 957: homeFairOdds: toAmericanOdds(homeWinCount / n)
FairOdds ==
    /\ mcpc = "odds"
    /\ simulationResults' =
           [homeFairOdds |->
               toAmericanOdds([num |-> run.homeWinCount, den |-> numSimulations])]
    /\ mcpc' = "converted"
    /\ UNCHANGED <<variant, numSimulations, run, i, homeScores, awayScores,
                   totals, margins>>
    /\ UNCHANGED discreteVars
    /\ UNCHANGED dbVars

NextOdds == FairOdds

SpecOdds == InitOdds /\ [][NextOdds]_vars

(***************************************************************************)
(* Properties of the Monte Carlo runs and of the odds conversion.          *)
(***************************************************************************)
IsScore(x) == IsFinite(x) /\ x >= 0

\* C5: in the continuous samplers (App.jsx, part_001) both recorded scores
\* of every trial are finite non-negative integers, for all uniform draws
\* in [0, 1), u1 = 0 included.
C5_ContinuousScoresFinite ==
    variant \in {"App", "part_001"} =>
        \A k \in 1 .. Len(homeScores) :
            IsScore(homeScores[k]) /\ IsScore(awayScores[k])

\* the over/under records a finished run reports
OverUnderRecords ==
    IF variant = "part_002"
    THEN { simulationResults.overUnder } \ { Null }
    ELSE { simulationResults.overUnder, simulationResults.homeTeamOverUnder,
           simulationResults.awayTeamOverUnder } \ { Null }

C7_PushIffEqualsLine ==
    (mcpc = "done" /\ variant \in {"App", "part_002"}
        /\ simulationResults.overUnder # Null) =>
        LET ou == simulationResults.overUnder
        IN  /\ ou.pushCount = Cardinality({ k \in 1 .. Len(totals) : JsNear(totals[k], ou.line, Eps) })
            /\ ou.overCount = Cardinality({ k \in 1 .. Len(totals) : JsGt(totals[k], ou.line, Eps) })
            /\ ou.underCount = Cardinality({ k \in 1 .. Len(totals) : JsLt(totals[k], ou.line, 0 - Eps) })
            /\ (\A k \in 1 .. Len(totals) : JsNear(totals[k], ou.line, 0)) =>
                   (ou.pushCount = numSimulations
                        /\ ou.overCount = 0 /\ ou.underCount = 0)
            /\ (ou.line.kind = "num" /\ ou.line.h2 % 2 = 1 /\ ou.line.off = 0
                    /\ \A k \in 1 .. Len(totals) : IsFinite(totals[k])) =>
                   ou.pushCount = 0

\* the spread record a finished run reports
SpreadRecord ==
    IF variant = "part_002" THEN simulationResults.spreadCoverage
    ELSE simulationResults.spread

\* C8: with margin = homeScore - awayScore and the home-perspective line,
\* home covers iff margin + line > 0, away covers iff margin + line < 0,
\* push iff margin + line = 0; the three counts add up to N; and on integer
\* margins and whole- or half-point lines the App.jsx rule and the part_002
\* epsilon rule give the same counts.
C8_SpreadCover ==
    (mcpc = "done" /\ variant \in {"App", "part_002"} /\ SpreadRecord # Null) =>
        LET sp == SpreadRecord
            th == LineNeg(sp.line)
        IN  /\ sp.homeCoverCount = Cardinality({ k \in 1 .. Len(margins) : JsGt(margins[k], th, 0) })
            /\ sp.awayCoverCount = Cardinality({ k \in 1 .. Len(margins) : JsLt(margins[k], th, 0) })
            /\ sp.pushCount = Cardinality({ k \in 1 .. Len(margins) : JsNear(margins[k], th, 0) })
            /\ sp.homeCoverCount + sp.awayCoverCount + sp.pushCount = numSimulations
            /\ (sp.line.kind = "num" /\ sp.line.off = 0
                    /\ \A k \in 1 .. Len(margins) : IsFinite(margins[k])) =>
                   SpreadExact(margins, sp.line) = SpreadEps(margins, sp.line)

\* the win and tie counts a finished run reports
WinRecord ==
    IF variant = "part_002" THEN simulationResults.winProbabilities
    ELSE [homeWin |-> simulationResults.moneyline.homeWinCount,
          awayWin |-> simulationResults.moneyline.awayWinCount]

\* C9: in the discrete and in the App.jsx simulator a side wins only the
\* trials in which it strictly outscores the other, equal scores are
\* reported as ties, and homeWin + awayWin + tie == N.
C9_TiesCounted ==
    (mcpc = "done" /\ variant \in {"App", "part_002"}) =>
        LET w == WinRecord
            idx == 1 .. Len(homeScores)
        IN  /\ w.homeWin = Cardinality({ k \in idx :
                    JsGt(JsSub(homeScores[k], awayScores[k]), Line(0, 0), 0) })
            /\ w.awayWin = Cardinality({ k \in idx :
                    JsLt(JsSub(homeScores[k], awayScores[k]), Line(0, 0), 0) })
            /\ "tie" \in DOMAIN w
            /\ w.tie = Cardinality({ k \in idx :
                    homeScores[k] = awayScores[k] /\ ~IsNaN(homeScores[k]) })
            /\ w.homeWin + w.awayWin + w.tie = numSimulations

\* C10: toAmericanOdds(k / N) is +Infinity for k <= 0 and -Infinity for
\* k >= N; otherwise it is -round(100 p / (1 - p)) for p >= 0.5 and
\* round(100 (1 - p) / p) for p < 0.5: a finite integer of absolute value
\* at least 100, negative iff p >= 0.5, and -100 at p = 0.5.
C10_FairOdds ==
    mcpc = "converted" =>
        LET k == run.homeWinCount
            n == numSimulations
            odds == simulationResults.homeFairOdds
        IN  /\ (k <= 0) => odds = PosInf
            /\ (k >= n) => odds = NegInf
            /\ (0 < k /\ k < n) =>
                  /\ IsFinite(odds)
                  /\ odds \in Int
                  /\ (2 * k >= n) => odds = 0 - MathRound(100 * k, n - k)
                  /\ (2 * k < n) => odds = MathRound(100 * (n - k), k)
                  /\ odds >= 100 \/ odds <= 0 - 100
                  /\ (odds < 0) <=> (2 * k >= n)
                  /\ (2 * k = n) => odds = 0 - 100

\* the conversion of a probability of exactly one half
C10_Witness ==
    /\ mcpc = "converted"
    /\ 2 * run.homeWinCount = numSimulations
    /\ simulationResults.homeFairOdds = 0 - 100

\* C11: for every p = k / n in (0, 1), converting p to fair odds and the
\* odds back (negative o -> |o| / (|o| + 100), positive o -> 100 / (o + 100))
\* recovers p with an error below 0.0025.
\* With q = 100 / (|o| + 100) the recovered value is q for positive and
\* 1 - q for negative odds, so the error is |100 n - c (|o| + 100)| over
\* n (|o| + 100), c being k for positive and n - k for negative odds.
C11_OddsRoundTrip ==
    (mcpc = "converted" /\ 0 < run.homeWinCount
        /\ run.homeWinCount < numSimulations) =>
        LET k == run.homeWinCount
            n == numSimulations
            odds == simulationResults.homeFairOdds
            b == (IF odds < 0 THEN 0 - odds ELSE odds) + 100
            c == IF odds < 0 THEN n - k ELSE k
            err == IF 100 * n >= c * b THEN 100 * n - c * b ELSE c * b - 100 * n
        IN  /\ IsFinite(odds)
            /\ err <= (b * n - 1) \div 400

\* the conversion of 3 / 7: the ratio 133.33 is rounded to +133
C11_Witness ==
    /\ mcpc = "converted"
    /\ run.homeWinCount = 3 /\ numSimulations = 7
    /\ simulationResults.homeFairOdds = 133

(***************************************************************************)
(* The percentiles of a score array (specification SpecPercentile):        *)
(* App.jsx percentile, lines 850-857, called at lines 971-973 with         *)
(* p = 50, 10 and 90 on results.homeScores.  A home score is a             *)
(* non-negative integer or Infinity (the trial that draws u1 = 0).         *)
(* Percentile values are kept in 1/100 point.                              *)
(***************************************************************************)
MaxLen == 3          \* scores in the array: 1 .. MaxLen

PctScale == 10 * 10

SampleValues == { 0, 13, 26, PosInf }
PGrid == { 0, 10, 50, 90, 100 }

\* [...arr].sort((a, b) => a - b)
SortedCopy(arr) == SortSeq(arr, LAMBDA a, b : a < b)

percentile(arr, p) ==
    LET sorted == SortedCopy(arr)
        index  == p * (Len(sorted) - 1)          \* in 1/100
        lower  == index \div PctScale
        upper  == (index + PctScale - 1) \div PctScale
        weight == index - lower * PctScale       \* in 1/100
    IN  JsAdd(JsScale(PctScale - weight, sorted[lower + 1], 1),
              JsScale(weight, sorted[upper + 1], 1))

RECURSIVE SeqsOf(_, _)
SeqsOf(S, n) ==
    IF n = 0 THEN { <<>> }
    ELSE { Append(q, x) : q \in SeqsOf(S, n - 1), x \in S }

InitPercentile ==
    /\ IdleDiscrete
    /\ IdleDB
    /\ variant = "App"
    /\ numSimulations \in 1 .. MaxLen
    /\ homeScores \in SeqsOf(SampleValues, numSimulations)
    /\ run = [arr |-> homeScores]
    /\ i = numSimulations
    /\ awayScores = <<>> /\ totals = <<>> /\ margins = <<>>
    /\ simulationResults = Null
    /\ mcpc = "scores"

\* App.jsx lines 969-974, and the two ends p = 0 and p = 100
HomeScoreStats ==
    /\ mcpc = "scores"
    /\ simulationResults' = [q \in PGrid |-> percentile(homeScores, q)]
    /\ mcpc' = "stats"
    /\ UNCHANGED <<variant, numSimulations, run, i, homeScores, awayScores,
                   totals, margins>>
    /\ UNCHANGED discreteVars
    /\ UNCHANGED dbVars

NextPercentile == HomeScoreStats

SpecPercentile == InitPercentile /\ [][NextPercentile]_vars

\* a <= b of two numbers: false when either is NaN
JsLe(a, b) == ~IsNaN(a) /\ ~IsNaN(b) /\ a <= b

\* C12: percentile(arr, p) is monotonic in p for every non-empty sample:
\* p1 < p2 gives percentile(arr, p1) <= percentile(arr, p2); percentile at 0
\* is the minimum and at 100 the maximum of arr; arr is not reordered.
C12_PercentileMonotonic ==
    mcpc = "stats" =>
        LET vals == { homeScores[k] : k \in 1 .. Len(homeScores) }
            least == CHOOSE x \in vals : \A y \in vals : x <= y
            most  == CHOOSE x \in vals : \A y \in vals : y <= x
        IN  /\ \A p1, p2 \in PGrid :
                  p1 < p2 => JsLe(simulationResults[p1], simulationResults[p2])
            /\ simulationResults[0] = JsScale(PctScale, least, 1)
            /\ simulationResults[100] = JsScale(PctScale, most, 1)
            /\ homeScores = run.arr

(***************************************************************************)
(* The field parsers (specification SpecParse).  A CSV cell is a sequence  *)
(* of characters; a parsed number is kept in 1/100000; NaN is the result   *)
(* of a parseFloat that finds no number.                                   *)
(***************************************************************************)
MaxChars == 3        \* characters in a generated cell: 0 .. MaxChars

ParseScale == 10^5

Digits == << "0", "1", "2", "3", "4", "5", "6", "7", "8", "9" >>
IsDigit(c) == \E k \in 1 .. Len(Digits) : Digits[k] = c
DigitVal(c) == (CHOOSE k \in 1 .. Len(Digits) : Digits[k] = c) - 1

\* number of digit characters of s from position k on
RECURSIVE DigitRun(_, _)
DigitRun(s, k) ==
    IF k <= Len(s) /\ IsDigit(s[k]) THEN 1 + DigitRun(s, k + 1) ELSE 0

\* the decimal number written by the n digits of s that start at position k
RECURSIVE DigitsValue(_, _, _)
DigitsValue(s, k, n) ==
    IF n = 0 THEN 0
    ELSE 10 * DigitsValue(s, k, n - 1) + DigitVal(s[k + n - 1])

\* String.prototype.trim and its two halves
RECURSIVE TrimStart(_)
TrimStart(s) == IF s # <<>> /\ Head(s) = " " THEN TrimStart(Tail(s)) ELSE s

RECURSIVE TrimEnd(_)
TrimEnd(s) ==
    IF s # <<>> /\ s[Len(s)] = " " THEN TrimEnd(SubSeq(s, 1, Len(s) - 1)) ELSE s

Trim(s) == TrimEnd(TrimStart(s))

Includes(s, c) == \E k \in 1 .. Len(s) : s[k] = c

\* s.replace(c, ''): the first occurrence only
ReplaceFirst(s, c) ==
    IF ~Includes(s, c) THEN s
    ELSE LET k == CHOOSE m \in 1 .. Len(s) :
                      s[m] = c /\ \A t \in 1 .. m - 1 : s[t] # c
         IN  SubSeq(s, 1, k - 1) \o SubSeq(s, k + 1, Len(s))

\* s.replace(/[...]/g, ''): every occurrence of the characters in cs
ReplaceAll(s, cs) == SelectSeq(s, LAMBDA c : c \notin cs)

\* parseFloat(s): leading white space, an optional minus sign, digits, an
\* optional point and more digits, or the word Infinity; whatever follows
\* is ignored
parseFloat(s) ==
    LET t     == TrimStart(s)
        neg   == t # <<>> /\ Head(t) = "-"
        m     == IF neg THEN Tail(t) ELSE t
        ip    == DigitRun(m, 1)
        point == ip < Len(m) /\ m[ip + 1] = "."
        fp    == IF point THEN DigitRun(m, ip + 2) ELSE 0
        mag   == DigitsValue(m, 1, ip) * ParseScale
                   + (DigitsValue(m, ip + 2, fp) * ParseScale) \div (10 ^ fp)
        inf   == Len(m) >= 8
                   /\ SubSeq(m, 1, 8) = << "I", "n", "f", "i", "n", "i", "t", "y" >>
    IN  IF inf THEN (IF neg THEN NegInf ELSE PosInf)
        ELSE IF ip = 0 /\ fp = 0 THEN NaN
        ELSE IF neg THEN 0 - mag ELSE mag

\* the values a cell can have in a parsed row
Str(s) == [type |-> "string", chars |-> s]
Num(x) == [type |-> "number", value |-> x]
\* null and undefined are the record Null

\* null where a number is expected (the result of a parser)
NoNumber == 0 - 21 * 10^8

\* x / 100 of a parsed number
Div100(x) == IF IsFinite(x) THEN x \div 100 ELSE x

\* App.jsx lines 203-219; val is a string or null
parsePercent(val) ==
    IF val = Null \/ val.chars = <<>> THEN NoNumber
    ELSE LET originalStr    == Trim(val.chars)
             hasPercentSign == Includes(originalStr, "%")
             numStr         == Trim(ReplaceFirst(originalStr, "%"))
             num            == parseFloat(numStr)
         IN  IF IsNaN(num) THEN NoNumber
             ELSE IF hasPercentSign THEN Div100(num)
             ELSE IF num > ParseScale THEN Div100(num)
             ELSE num

\* part_001 lines 124-134; v is a string, a number or null
parsePercentStrict(v) ==
    IF v = Null THEN NoNumber
    ELSE IF v.type = "number"
         THEN (IF v.value > ParseScale /\ v.value <= 100 * ParseScale
               THEN Div100(v.value) ELSE v.value)
    ELSE LET str    == Trim(v.chars)
             neg    == Len(str) >= 2 /\ str[1] = "(" /\ str[Len(str)] = ")"
             hasPct == Includes(str, "%")
             num    == parseFloat(ReplaceAll(str, {"(", ")", "%", " "}))
             val    == IF hasPct THEN Div100(num)
                       ELSE IF num > ParseScale /\ num <= 100 * ParseScale
                            THEN Div100(num) ELSE num
         IN  IF IsNaN(num) THEN NoNumber
             ELSE IF neg THEN 0 - val ELSE val

\* the common head of parseNum, parsePct and parseDVOA (part_002 lines
\* 87-91, 101-105, 123-126): the number n of the cell, or NaN
CellNumber(val) ==
    IF val.type = "number" THEN val.value
    ELSE parseFloat(ReplaceAll(val.chars, {"%"}))

CellHasPercent(val) == val.type = "string" /\ Includes(val.chars, "%")

CellMissing(val) == val = Null \/ val = Str(<<>>)

\* part_002 lines 86-97
parseNum(val, def) ==
    IF CellMissing(val) THEN def
    ELSE LET n == CellNumber(val)
         IN  IF IsNaN(n) THEN def
             ELSE IF CellHasPercent(val) THEN Div100(n)
             ELSE n

parsePct_MagnitudeOnly(val, def) ==
    IF CellMissing(val) THEN def
    ELSE LET n == CellNumber(val)
         IN  IF IsNaN(n) THEN def
             ELSE IF n < ParseScale THEN n
             ELSE IF n >= ParseScale /\ n <= 100 * ParseScale THEN Div100(n)
             ELSE n

\* part_002 lines 100-120
parsePct(val, def) ==
    IF CellMissing(val) THEN def
    ELSE LET n == CellNumber(val)
         IN  IF IsNaN(n) THEN def
             ELSE IF CellHasPercent(val) THEN Div100(n)
             ELSE IF n < ParseScale THEN n
             ELSE IF n >= ParseScale /\ n <= 100 * ParseScale THEN Div100(n)
             ELSE n

\* part_002 lines 122-130
parseDVOA(val, def) ==
    IF CellMissing(val) THEN def
    ELSE LET n == CellNumber(val)
         IN  IF IsNaN(n) THEN def ELSE n

\* Papa.parse with dynamicTyping: true (part_002 line 140): a cell that is
\* a number from end to end becomes that number, the empty cell null
IsFloatText(s) ==
    LET t  == Trim(s)
        m  == IF t # <<>> /\ Head(t) = "-" THEN Tail(t) ELSE t
        ip == DigitRun(m, 1)
        fp == IF ip < Len(m) /\ m[ip + 1] = "." THEN DigitRun(m, ip + 2) ELSE 0
    IN  /\ ip + fp > 0
        /\ Len(m) = ip + (IF ip < Len(m) /\ m[ip + 1] = "." THEN 1 + fp ELSE 0)

DynamicTyping(s) ==
    IF s = <<>> THEN Null
    ELSE IF IsFloatText(s) THEN Num(parseFloat(s))
    ELSE Str(s)

\* the characters of the generated cells and some cells of team sheets
CellChars == { "0", "1", "5", ".", "%", "-", "(", " ", "x" }

ExampleCells ==
    { << "0", ".", "8", "9", "%" >>, << "4", "4", ".", "7", "%" >>,
      << "1", "5", "0", "%" >>, << "4", "4", ".", "7" >>,
      << "0", ".", "4", "4", "7" >>, << "1", "0", "0" >>, << "1", "0", "1" >>,
      << "(", "5", "%", ")" >>, << "N", "/", "A" >> }

Cells == UNION { SeqsOf(CellChars, n) : n \in 0 .. MaxChars } \cup ExampleCells

\* league means used as defaults, in 1/100000
lg_SR == 43000           \* part_002 line 178: parsePct(r["Off Success Rate"], 0.43)
lg_PPD == 206000         \* part_002 line 175: parseNum(r["Off PPD"], 2.06)
lg_SR_App == 43625       \* App.jsx line 69: SR: 0.43625
lg_PPD_App == 207488     \* App.jsx line 65: PPD: 2.07488
lg_SR_Hybrid == 47053    \* part_001 line 26: SR: 0.470531

\* a || b of a parser result: null, NaN and 0 are falsy
JsOr(a, b) == IF a = NoNumber \/ a = NaN \/ a = 0 THEN b ELSE a

\* a ?? b: only null and undefined are replaced
JsNullish(a, b) == IF a = NoNumber THEN b ELSE a

\* App.jsx lines 251-258
getNumeric(val, fallback) ==
    LET parsed == IF val = Null THEN NaN ELSE parseFloat(val.chars)
    IN  IF val # Null /\ val # Str(<<>>) /\ ~IsNaN(parsed) THEN parsed ELSE fallback

getPercent(val, fallback) ==
    LET parsed == parsePercent(val)
    IN  IF parsed # NoNumber THEN parsed ELSE fallback

\* App.jsx lines 189-196 on a team that has the column or not
findValue(present, text) ==
    IF present /\ text # <<>> THEN Str(text) ELSE Null

InitParse ==
    /\ IdleDiscrete
    /\ IdleDB
    /\ variant \in {"App", "part_001", "part_002"}
    /\ run \in { [present |-> TRUE, cell |-> c] : c \in Cells }
               \cup { [present |-> FALSE, cell |-> <<>>] }
    /\ numSimulations = 0 /\ i = 0
    /\ homeScores = <<>> /\ awayScores = <<>> /\ totals = <<>> /\ margins = <<>>
    /\ simulationResults = Null
    /\ mcpc = "cell"

\* App.jsx: parseCSVLine trims the cell (line 668); the CER extraction
\* (lines 248-265) and calculatePaceAdjustment (lines 358-369) read it
ReadApp ==
    /\ mcpc = "cell" /\ variant = "App"
    /\ LET val == findValue(run.present, Trim(run.cell))
       IN  simulationResults' =
             [percent     |-> parsePercent(val),
              cerPercent  |-> getPercent(val, lg_SR_App),
              cerNumeric  |-> getNumeric(val, lg_PPD_App),
              pacePercent |-> JsOr(parsePercent(val), lg_SR_App),
              paceNumeric |-> JsOr(IF val = Null THEN NaN ELSE parseFloat(val.chars),
                                   lg_PPD_App)]
    /\ mcpc' = "parsed"
    /\ UNCHANGED <<variant, numSimulations, run, i, homeScores, awayScores,
                   totals, margins>>
    /\ UNCHANGED discreteVars
    /\ UNCHANGED dbVars

\* part_001: coerceRow (lines 192-202) stores parsePercentStrict of a
\* percent column, Off DVOA and Def DVOA among them; projectTeamFromDB
\* (lines 240-272) reads the stored value with ?? default
ReadHybrid ==
    /\ mcpc = "cell" /\ variant = "part_001"
    /\ LET stored == IF run.present THEN parsePercentStrict(Str(run.cell)) ELSE NoNumber
       IN  simulationResults' =
             [percent |-> stored,
              off_sr   |-> JsNullish(stored, lg_SR_Hybrid),
              off_dvoa |-> JsNullish(stored, 0)]
    /\ mcpc' = "parsed"
    /\ UNCHANGED <<variant, numSimulations, run, i, homeScores, awayScores,
                   totals, margins>>
    /\ UNCHANGED discreteVars
    /\ UNCHANGED dbVars

\* part_002: Papa.parse types the cell (line 140); projectTeamFromDB
\* (lines 171-204) reads it with parseNum, parsePct or parseDVOA
ReadDiscrete ==
    /\ mcpc = "cell" /\ variant = "part_002"
    /\ LET val == IF run.present THEN DynamicTyping(run.cell) ELSE Null
       IN  simulationResults' =
             [percent  |-> parsePct(val, NoNumber),
              number   |-> parseNum(val, NoNumber),
              off_sr   |-> parsePct(val, lg_SR),
              off_ppd  |-> parseNum(val, lg_PPD),
              off_dvoa |-> parseDVOA(val, 0)]
    /\ mcpc' = "parsed"
    /\ UNCHANGED <<variant, numSimulations, run, i, homeScores, awayScores,
                   totals, margins>>
    /\ UNCHANGED discreteVars
    /\ UNCHANGED dbVars

NextParse == ReadApp \/ ReadHybrid \/ ReadDiscrete

SpecParse == InitParse /\ [][NextParse]_vars

(***************************************************************************)
(* Properties of the field parsers.  A plain cell is a number from end to  *)
(* end, optionally followed by one percent sign; CellValue is that number. *)
(***************************************************************************)
CellBody(cell) ==
    IF cell # <<>> /\ cell[Len(cell)] = "%"
    THEN SubSeq(cell, 1, Len(cell) - 1) ELSE cell

PlainCell(cell) == IsFloatText(CellBody(cell))
CellValue(cell) == parseFloat(CellBody(cell))
HasDigit(cell) == \E k \in 1 .. Len(cell) : IsDigit(cell[k])

\* a plain cell has been read
ParsedPlain == mcpc = "parsed" /\ run.present /\ PlainCell(run.cell)

\* C13: every percentage parser (parsePercent, parsePercentStrict, parsePct)
\* divides a parseable value that carries a percent sign by 100, whatever
\* its magnitude ("0.89%" -> 0.0089, "44.7%" -> 0.447, "150%" -> 1.5).
C13_PercentSignDivides ==
    (ParsedPlain /\ Includes(run.cell, "%")) =>
        /\ simulationResults.percent # NoNumber
        /\ simulationResults.percent * 100 = CellValue(run.cell)

\* part_002 has read the cell 0.89% as 0.0089
C13_Witness ==
    /\ mcpc = "parsed" /\ variant = "part_002"
    /\ run.cell = << "0", ".", "8", "9", "%" >>
    /\ simulationResults.percent = 890

\* C14: every percentage parser divides a value without a percent sign by
\* 100 when 1 < v <= 100 and returns any other value (v <= 1, exactly 1, 0,
\* negatives, v > 100) unchanged.
C14_NoSignRule ==
    (ParsedPlain /\ ~Includes(run.cell, "%")) =>
        LET v == CellValue(run.cell)
        IN  IF v > ParseScale /\ v <= 100 * ParseScale
            THEN simulationResults.percent * 100 = v
            ELSE simulationResults.percent = v

\* C15: Off DVOA and Def DVOA are never rescaled when a team profile is
\* built (part_001, part_002): the stored value is the parsed number, with
\* or without a percent sign and whatever its magnitude.
C15_DvoaNotRescaled ==
    (ParsedPlain /\ variant \in {"part_001", "part_002"}) =>
        simulationResults.off_dvoa = CellValue(run.cell)

\* C16: the league mean is substituted iff the field is absent, empty or
\* unparseable; a field that parses to a number, 0 included, is used
\* unchanged (CER extraction and calculatePaceAdjustment of App.jsx,
\* projectTeamFromDB of part_002).
C16_DefaultIffMissing ==
    mcpc = "parsed" =>
        LET missing == ~run.present \/ ~HasDigit(run.cell)
            plain   == run.present /\ PlainCell(run.cell)
            r       == simulationResults
        IN  /\ variant = "App" =>
                 /\ missing => /\ r.cerPercent = lg_SR_App
                               /\ r.cerNumeric = lg_PPD_App
                               /\ r.pacePercent = lg_SR_App
                               /\ r.paceNumeric = lg_PPD_App
                 /\ plain => /\ r.cerPercent = r.percent
                             /\ r.cerNumeric = CellValue(run.cell)
                             /\ r.pacePercent = r.percent
                             /\ r.paceNumeric = CellValue(run.cell)
            /\ variant = "part_002" =>
                 /\ missing => r.off_sr = lg_SR /\ r.off_ppd = lg_PPD
                 /\ plain => r.off_sr = r.percent /\ r.off_ppd = r.number

(***************************************************************************)
(* Team sheet upload: handleFileUpload of part_001 (lines 204-229) and     *)
(* part_002 (lines 132-169), parseCSV and handleFileUpload of App.jsx      *)
(* (lines 629-672, 706-738).  A raw record is reduced to its team-name     *)
(* column: col is the header of that column ("Team", "team", or "none"     *)
(* when the sheet has neither) and name the text of the cell.  Team names  *)
(* and selections are character sequences; <<>> is the empty string.       *)
(***************************************************************************)
MaxRows == 2

NameCells ==
    { <<>>, << " " >>, << "0" >>, << "K", "C" >> }

RawRecords ==
    { [col |-> c, name |-> n] : c \in {"Team", "team"}, n \in NameCells }
        \cup { [col |-> "none", name |-> <<>>] }

\* a file the reader or the parser fails on, or the records of a sheet; the
\* records of one sheet have the columns of its header
Files ==
    { [readable |-> FALSE, rows |-> <<>>] }
        \cup { [readable |-> TRUE, rows |-> r] :
                 r \in { q \in UNION { SeqsOf(RawRecords, n) : n \in 0 .. MaxRows } :
                            \A j, k \in 1 .. Len(q) : q[j].col = q[k].col } }

\* UTF-16 code units of the characters of the team names
CharCode(c) ==
    CASE c = " " -> 32 [] c = "0" -> 48 [] c = "C" -> 67 [] c = "K" -> 75
      [] c = "F" -> 70 [] c = "S" -> 83

\* the default comparison of Array.prototype.sort on strings
RECURSIVE StringLess(_, _)
StringLess(a, b) ==
    IF b = <<>> THEN FALSE
    ELSE IF a = <<>> THEN TRUE
    ELSE IF Head(a) # Head(b) THEN CharCode(Head(a)) < CharCode(Head(b))
    ELSE StringLess(Tail(a), Tail(b))

\* row["Team"] || row["team"] || "" followed by String(...).trim()
\* (part_002 line 150, with the cell typed by dynamicTyping: true, so that
\* a numeric 0 is falsy; part_001 line 219 with the cell left as text)
RowName(v, row) ==
    IF row.col = "none" THEN <<>>
    ELSE IF v = "part_002"
    THEN LET cell == DynamicTyping(row.name)
         IN  IF cell = Null THEN <<>>
             ELSE IF cell.type = "number" /\ cell.value \in {0, NaN} THEN <<>>
             ELSE Trim(row.name)
    ELSE Trim(row.name)

\* team.team || team.Team of App.jsx parseCSV (line 659); parseCSVLine has
\* trimmed the cell
TeamName(row) == IF row.col = "none" THEN <<>> ELSE Trim(row.name)

\* names of the records that are kept, in the order of the sheet
RECURSIVE Names(_, _)
Names(v, rows) ==
    IF rows = <<>> THEN <<>>
    ELSE LET name == IF v = "App" THEN TeamName(Head(rows))
                     ELSE RowName(v, Head(rows))
         IN  IF name = <<>> THEN Names(v, Tail(rows))
             ELSE <<name>> \o Names(v, Tail(rows))

\* nextDB[name] = row for every kept record, a later record replacing an
\* earlier one of the same name; teams.find of App.jsx (line 1169) takes
\* the first record of a name instead
NextDB(v, rows) ==
    LET names == { Names(v, rows)[k] : k \in 1 .. Len(Names(v, rows)) }
        Rows(n) == { k \in 1 .. Len(rows) :
                       (IF v = "App" THEN TeamName(rows[k])
                        ELSE RowName(v, rows[k])) = n }
        Pick(n) == IF v = "App"
                   THEN CHOOSE k \in Rows(n) : \A m \in Rows(n) : k <= m
                   ELSE CHOOSE k \in Rows(n) : \A m \in Rows(n) : k >= m
    IN  [ n \in names |-> rows[Pick(n)] ]

InitUpload ==
    /\ IdleDiscrete
    /\ IdleDB
    /\ variant \in {"App", "part_001", "part_002"}
    /\ numSimulations = 0 /\ i = 0
    /\ run = Null
    /\ homeScores = <<>> /\ awayScores = <<>> /\ totals = <<>> /\ margins = <<>>
    /\ simulationResults = Null
    /\ mcpc = "ui"

\* the state writes of a failed upload: the status only
UploadFailed_ClearsDB ==
    /\ uploadStatus' = "error"
    /\ teamDB' = <<>> /\ teamList' = <<>>
    /\ UNCHANGED <<homeTeam, awayTeam, simulationResults, isSimulating>>

UploadFailed ==
    /\ uploadStatus' = "error"
    /\ UNCHANGED <<teamDB, teamList, homeTeam, awayTeam, simulationResults,
                   isSimulating>>

\* part_001 and part_002: handleFileUpload
handleFileUpload(file) ==
    /\ variant \in {"part_001", "part_002"}
    /\ IF ~file.readable \/ file.rows = <<>> \/ Names(variant, file.rows) = <<>>
       THEN UploadFailed
       ELSE /\ teamDB' = NextDB(variant, file.rows)
            /\ teamList' = SortSeq(Names(variant, file.rows), StringLess)
            /\ uploadStatus' = "loaded"
            /\ simulationResults' = Null
            /\ UNCHANGED <<homeTeam, awayTeam, isSimulating>>
    /\ UNCHANGED <<variant, numSimulations, run, i, homeScores, awayScores,
                   totals, margins, mcpc>>
    /\ UNCHANGED discreteVars

\* App.jsx: handleFileUpload with parseCSV; setTeams keeps the order of the
\* sheet
handleFileUploadApp(file) ==
    /\ variant = "App"
    /\ IF ~file.readable \/ file.rows = <<>> \/ Names("App", file.rows) = <<>>
       THEN UploadFailed
       ELSE /\ teamDB' = NextDB("App", file.rows)
            /\ teamList' = Names("App", file.rows)
            /\ uploadStatus' = "loaded"
            /\ UNCHANGED <<homeTeam, awayTeam, simulationResults, isSimulating>>
    /\ UNCHANGED <<variant, numSimulations, run, i, homeScores, awayScores,
                   totals, margins, mcpc>>
    /\ UNCHANGED discreteVars

\* the two team selectors: the empty option or a team of the list
SelectTeam ==
    /\ \E side \in {"home", "away"}, k \in 0 .. Len(teamList) :
          LET name == IF k = 0 THEN <<>> ELSE teamList[k]
          IN  IF side = "home"
              THEN homeTeam' = name /\ UNCHANGED awayTeam
              ELSE awayTeam' = name /\ UNCHANGED homeTeam
    /\ UNCHANGED <<teamDB, teamList, uploadStatus, isSimulating>>
    /\ UNCHANGED mcVars
    /\ UNCHANGED discreteVars

\* runSimulation / runMonteCarloSimulation up to the stored result, of which
\* the two team names are kept
runSimulation ==
    /\ homeTeam # <<>> /\ awayTeam # <<>>
    /\ simulationResults' = [homeTeam |-> homeTeam, awayTeam |-> awayTeam]
    /\ UNCHANGED <<variant, numSimulations, run, i, homeScores, awayScores,
                   totals, margins, mcpc>>
    /\ UNCHANGED dbVars
    /\ UNCHANGED discreteVars

NextUpload ==
    \/ \E file \in Files : handleFileUpload(file)
    \/ \E file \in Files : handleFileUploadApp(file)
    \/ SelectTeam
    \/ runSimulation

SpecUpload == InitUpload /\ [][NextUpload]_vars

\* an upload that yields no record with a team name, or cannot be parsed
NoTeamFile(file) ==
    \/ ~file.readable
    \/ \A k \in 1 .. Len(file.rows) :
          file.rows[k].col = "none" \/ Trim(file.rows[k].name) = <<>>

NoTeamFiles == { file \in Files : NoTeamFile(file) }

\* C17: a raw record with no non-empty Team/team value is never stored as a
\* team, and an upload that yields no record with a team name (or cannot be
\* parsed) ends in an error status and leaves the team database, the team
\* list, the team selections and the simulation results unchanged.
C17_InvalidRecord ==
    [][ /\ \A n \in DOMAIN teamDB' :
             /\ n # <<>>
             /\ teamDB'[n].col # "none" /\ Trim(teamDB'[n].name) = n
        /\ \A k \in 1 .. Len(teamList') : teamList'[k] # <<>>
        /\ (\E file \in NoTeamFiles :
              handleFileUpload(file) \/ handleFileUploadApp(file))
           => /\ uploadStatus' = "error"
              /\ UNCHANGED <<teamDB, teamList, homeTeam, awayTeam,
                             simulationResults>> ]_vars

\* a loaded sheet with both teams selected and a result on screen, after a
\* later upload has failed
C17_Witness ==
    /\ uploadStatus = "error"
    /\ teamList # <<>>
    /\ homeTeam = << "K", "C" >> /\ awayTeam = << "K", "C" >>
    /\ simulationResults = [homeTeam |-> homeTeam, awayTeam |-> awayTeam]

\* C18: a simulation requested with numSimulations <= 0 or NaN is rejected
\* and produces no SimulationResult.
C18_ConfigurationError ==
    (IsNaN(numSimulations) \/ numSimulations <= 0) => simulationResults = Null

(***************************************************************************)
(* calculateAdaptiveCorrelation (App.jsx lines 555-594), specification     *)
(* SpecRho.  rho is in hundredths, the spread in half points, the wind in  *)
(* whole mph (parseInt, line 1325), team rates and seconds per snap in     *)
(* 1 / ParseScale as the field parsers return them.                        *)
(***************************************************************************)
MaxSpread == 28      \* spread: -MaxSpread .. MaxSpread half points, or NaN

RhoScale == 10 * 10
RHO_BASELINE == 22

lg_PassRate == 54922
lg_Xpl == 8818
lg_SecSnap == 2851460

clamp(x, a, b) == IF IsNaN(x) THEN NaN ELSE Max(a, Min(b, x))

SpreadGrid == ((0 - MaxSpread) .. MaxSpread) \cup { NaN }
WindGrid == { NaN, 10, 15, 16 }
PrecipGrid == { "none", "light_rain", "heavy_rain", "snow" }

\* team rows: the three columns the function reads (<<>>: no such column)
TeamRows ==
    { [passRate |-> <<>>, xpl |-> << "0" >>, secSnap |-> << "0" >>],
      [passRate |-> << "6", "2", "%" >>, xpl |-> << "1", "1", "%" >>,
       secSnap |-> << "2", "6", ".", "5" >>],
      [passRate |-> << "0", ".", "4", "5" >>, xpl |-> << "7", "%" >>,
       secSnap |-> << "3", "0", ".", "2" >>] }

\* Math.abs of a spread
AbsSpread(spread) ==
    IF IsNaN(spread) THEN NaN ELSE IF spread < 0 THEN 0 - spread ELSE spread

\* 1. competitiveness, lines 559-562
SpreadStep(spread) ==
    LET absSpread == AbsSpread(spread)
    IN  IF IsNaN(absSpread) THEN 0
        ELSE IF absSpread <= 2 * 3 THEN 10
        ELSE IF absSpread <= 2 * 7 THEN 5
        ELSE IF absSpread >= 2 * 14 THEN 0 - 10
        ELSE 0

\* parsePercent(findValue(team, [...])) || params.lg.X
PercentOr(cell, lgValue) == JsOr(parsePercent(findValue(TRUE, cell)), lgValue)

\* parseFloat(findValue(team, [...])) || params.lg.X
FloatOr(cell, lgValue) ==
    LET val == findValue(TRUE, cell)
    IN  JsOr(IF val = Null THEN NaN ELSE parseFloat(val.chars), lgValue)

\* 2. style alignment, lines 565-569
PassRateStep(homePassRate, awayPassRate) ==
    LET passRateDiff == Max(homePassRate - awayPassRate, awayPassRate - homePassRate)
    IN  IF passRateDiff < 5000 THEN 8
        ELSE IF passRateDiff > 15000 THEN 0 - 5
        ELSE 0

\* 3. explosive plays, line 575
XplStep(homeXpl, awayXpl) == IF homeXpl + awayXpl > 19000 THEN 5 ELSE 0

\* 4. environment, lines 578-583
WeatherStep(isDome, windMPH, precip) ==
    (IF isDome THEN 5 ELSE 0)
      + (IF IsNaN(windMPH) THEN 0
         ELSE IF windMPH > 15 THEN 0 - 15
         ELSE IF windMPH > 10 THEN 0 - 8
         ELSE 0)
      + (IF precip \in {"heavy_rain", "snow"} THEN 0 - 10
         ELSE IF precip = "light_rain" THEN 0 - 5
         ELSE 0)

\* 5. pace coupling, lines 587-591: avgPace against 27.4 and 29.8
PaceStep(homeSecSnap, awaySecSnap) ==
    LET paceSum == homeSecSnap + awaySecSnap
    IN  IF paceSum < 2 * 2740000 THEN 5
        ELSE IF paceSum > 2 * 2980000 THEN 0 - 3
        ELSE 0

\* rho before the clamp, lines 556-591
RhoSum(homeTeam_, awayTeam_, spread, isDome, windMPH, precip) ==
    RHO_BASELINE
      + SpreadStep(spread)
      + PassRateStep(PercentOr(homeTeam_.passRate, lg_PassRate),
                     PercentOr(awayTeam_.passRate, lg_PassRate))
      + XplStep(PercentOr(homeTeam_.xpl, lg_Xpl), PercentOr(awayTeam_.xpl, lg_Xpl))
      + WeatherStep(isDome, windMPH, precip)
      + PaceStep(FloatOr(homeTeam_.secSnap, lg_SecSnap),
                 FloatOr(awayTeam_.secSnap, lg_SecSnap))

calculateAdaptiveCorrelation_NoClamp(homeTeam_, awayTeam_, spread, isDome, windMPH, precip) ==
    RhoSum(homeTeam_, awayTeam_, spread, isDome, windMPH, precip)

calculateAdaptiveCorrelation(homeTeam_, awayTeam_, spread, isDome, windMPH, precip) ==
    clamp(RhoSum(homeTeam_, awayTeam_, spread, isDome, windMPH, precip),
          0 - 5, 60)

InitRho ==
    /\ IdleDiscrete
    /\ IdleDB
    /\ variant = "App"
    /\ \E home \in TeamRows, away \in TeamRows, spread \in SpreadGrid,
          isDome \in BOOLEAN, windMPH \in WindGrid, precipitation \in PrecipGrid :
          run = [home |-> home, away |-> away, spread |-> spread,
                 isDome |-> isDome, windMPH |-> windMPH,
                 precipitation |-> precipitation]
    /\ numSimulations = 0 /\ i = 0
    /\ homeScores = <<>> /\ awayScores = <<>> /\ totals = <<>> /\ margins = <<>>
    /\ simulationResults = Null
    /\ mcpc = "settings"

\* simulateGame lines 780-787: the call, kept as correlationUsed (line 810)
Correlation ==
    /\ mcpc = "settings"
    /\ simulationResults' =
           [correlationUsed |->
               calculateAdaptiveCorrelation(run.home, run.away, run.spread,
                   run.isDome, run.windMPH, run.precipitation)]
    /\ mcpc' = "rho"
    /\ UNCHANGED <<variant, numSimulations, run, i, homeScores, awayScores,
                   totals, margins>>
    /\ UNCHANGED discreteVars
    /\ UNCHANGED dbVars

NextRho == Correlation

SpecRho == InitRho /\ [][NextRho]_vars

\* C19: calculateAdaptiveCorrelation returns rho in [-0.05, 0.60] for every
\* combination of its inputs; the value is a function of the inputs alone;
\* and with all other inputs fixed a spread of larger magnitude never gets
\* a larger rho (stated for the spreads of equal magnitude and of the next
\* magnitude of the grid, which chains to every larger magnitude).
C19_AdaptiveCorrelation ==
    mcpc = "rho" =>
        LET rho == simulationResults.correlationUsed
            Rho(spread) ==
                calculateAdaptiveCorrelation(run.home, run.away, spread,
                    run.isDome, run.windMPH, run.precipitation)
        IN  /\ 0 - 5 <= rho /\ rho <= 60
            /\ rho = Rho(run.spread)
            /\ ~IsNaN(run.spread) =>
                  \A spread \in SpreadGrid \ { NaN } :
                      AbsSpread(spread) - AbsSpread(run.spread) \in {0, 1}
                          => Rho(spread) <= rho

\* a blowout spread in wind and snow between teams of unlike styles: the
\* sum is 0.22 - 0.10 - 0.05 - 0.15 - 0.10 and the lower clamp acts
C19_Witness ==
    /\ mcpc = "rho"
    /\ run.spread = 0 - 28 /\ run.windMPH = 16 /\ run.precipitation = "snow"
    /\ run.home.passRate = << "6", "2", "%" >>
    /\ run.away.passRate = << "0", ".", "4", "5" >>
    /\ simulationResults.correlationUsed = 0 - 5

\* C20: home-field advantage enters simulateDrive only as hfa / 12, with
\* opposite signs for the two sides in both logits: the home side's
\* three-out logit is lowered and its touchdown logit raised by hfa / 12,
\* the away side's three-out logit is raised and its touchdown logit lowered
\* by the same amount; with hfa = 0 the isHome flag changes nothing in the
\* drive.
C20_HfaLogitShift ==
    pc = "driven" =>
        LET metrics == homeMetrics
            other   == [metrics EXCEPT !.isHome = ~@]
            shift   == (hfa * LogitScale) \div (HfaScale * 12)
            Clamp(x) == Max(0 - LogitClamp, Min(LogitClamp, x))
        IN  /\ metrics.isHome =>
                 /\ logit_3out(metrics, hfa) = logit_3out(metrics, 0) - shift
                 /\ logit_td(metrics, hfa) = logit_td(metrics, 0) + shift
            /\ ~metrics.isHome =>
                 /\ logit_3out(metrics, hfa) = logit_3out(metrics, 0) + shift
                 /\ logit_td(metrics, hfa) = logit_td(metrics, 0) - shift
            /\ drive.logit_3out = Clamp(logit_3out(metrics, hfa))
            /\ drive.p_3out = sigmoid(Clamp(logit_3out(metrics, hfa)))
            /\ drive.sustained =>
                 /\ drive.logit_td = Clamp(logit_td(metrics, hfa))
                 /\ drive.p_td_given_sustain = sigmoid(Clamp(logit_td(metrics, hfa)))
                 /\ drive.rz_quality_factor = rz_quality_factor(metrics)
                 /\ drive.p_fg_given_sustain =
                        p_fg_given_sustain([metrics EXCEPT !.isHome = TRUE],
                                           IF metrics.isHome THEN hfa ELSE 0 - hfa)
            /\ hfa = 0 => drive = simulateDrive(other, 0, drive.r1, drive.r2)

\* a sustained drive of the away side with a 3-point home-field advantage:
\* its three-out logit is a quarter logit above the neutral one
C20_Witness ==
    /\ pc = "driven" /\ hfa = 30 /\ ~homeMetrics.isHome /\ drive.sustained
    /\ homeMetrics.epa_diff = 0
    /\ drive.logit_3out = logit_3out(homeMetrics, 0) + LogitScale \div 4

(***************************************************************************)
(* estimateScore (part_002 lines 312-401) on the profiles that             *)
(* projectTeamFromDB (lines 171-204) returns, specification SpecScenario.  *)
(* Profile fields are in 1/1000 of their unit (DVOA in 1/1000 of a whole   *)
(* percent); z-scores and the advantages are in 1/1000, every quotient is  *)
(* rounded to the nearest unit.                                            *)
(***************************************************************************)
\* the defaults of projectTeamFromDB: a team with no column filled
LeagueBaseline ==
    [off_ppd |-> 2060, off_epa |-> 22, off_sr |-> 430, off_xpl |-> 113,
     off_rz |-> 560, off_3out |-> 240, off_penalties |-> 440, off_dvoa |-> 0,
     off_drives |-> 11600,
     def_ppd_allowed |-> 2060, def_epa_allowed |-> 22, def_sr |-> 430,
     def_xpl |-> 113, def_penalties |-> 440, def_rz |-> 560, def_3out |-> 240,
     def_dvoa |-> 0, def_drives |-> 11600,
     off_to_epa |-> 0, off_fp |-> 25000, no_huddle |-> 0, ed_pass |-> 500,
     off_plays |-> 6000, def_plays |-> 6000]

\* profiles of team sheets: a strong fast offense, a strong slow defense and
\* a weak team
TeamProfiles ==
    { LeagueBaseline,
      [LeagueBaseline EXCEPT !.off_ppd = 2600, !.off_epa = 140, !.off_sr = 480,
                             !.off_rz = 640, !.off_3out = 180, !.off_dvoa = 18000,
                             !.off_drives = 12400, !.no_huddle = 300,
                             !.ed_pass = 620, !.off_plays = 6600],
      [LeagueBaseline EXCEPT !.def_ppd_allowed = 1700, !.def_epa_allowed = 0 - 80,
                             !.def_sr = 390, !.def_rz = 480, !.def_3out = 300,
                             !.def_dvoa = 0 - 12000, !.def_drives = 10800,
                             !.def_plays = 5200],
      [LeagueBaseline EXCEPT !.off_ppd = 1500, !.off_epa = 0 - 110, !.off_sr = 380,
                             !.off_penalties = 700, !.off_to_epa = 0 - 400,
                             !.off_fp = 22000, !.def_epa_allowed = 120,
                             !.def_sr = 470] }

\* zScore(val, mean, sd), line 206
zScore(val, mean, sd) == MathRound((val - mean) * 1000, sd)

\* eff_o and eff_d (lines 336-350) with params.weights in hundredths
Efficiency(z_ppd, z_epa, z_sr, z_xpl, z_rz, z_out) ==
    MathRound(z_ppd * 25 + z_epa * 40 + z_sr * 25 + z_xpl * 10 + z_rz * 5
                - z_out * 35, 100)

\* net_adv, lines 316-359
net_adv(team, oppDefense) ==
    LET eff_o == Efficiency(zScore(team.off_ppd, 2060, 420),
                            zScore(team.off_epa, 22, 127),
                            zScore(team.off_sr, 430, 50),
                            zScore(team.off_xpl, 113, 33),
                            zScore(team.off_rz, 560, 120),
                            zScore(team.off_3out, 240, 50))
        eff_d == Efficiency(zScore(oppDefense.def_ppd_allowed, 2060, 420),
                            zScore(oppDefense.def_epa_allowed, 22, 127),
                            zScore(oppDefense.def_sr, 430, 50),
                            zScore(oppDefense.def_xpl, 113, 33),
                            zScore(oppDefense.def_rz, 560, 120),
                            zScore(oppDefense.def_3out, 240, 50))
        dvoa_adj == MathRound(team.off_dvoa * 5 + oppDefense.def_dvoa * 5, 1000)
        to_adj == MathRound(team.off_to_epa, 116)
        fp_adj == MathRound((team.off_fp - 25000) * 2, 1000)
        pen_adj == MathRound((zScore(oppDefense.def_penalties, 440, 120) * 15
                                - zScore(team.off_penalties, 440, 120) * 25) * 5,
                             10000)
    IN  MathRound(eff_o + eff_d, 2) + dvoa_adj + to_adj + fp_adj + pen_adj

\* raw_strength / (1 + |raw_strength|), clamped to [-0.2, 0.2], lines 371-372
strength_adj(team, oppDefense) ==
    LET raw == MathRound(net_adv(team, oppDefense) * 12, 100)
        mag == IF raw < 0 THEN 0 - raw ELSE raw
    IN  Max(0 - 200, Min(200, MathRound(raw * 1000, 1000 + mag)))

\* drives, lines 375-387, in 1/100; the factors are in 1/10000
EstimatedDrives(team, oppDefense, isHome) ==
    LET nh_boost == team.no_huddle          \* no_huddle * 0.2 * 0.5
        ed_adj == team.ed_pass - 500        \* (ed_pass - 0.5) * 0.1
        base == MathRound(team.off_drives + oppDefense.def_drives, 2)
        paced == MathRound(base * (10000 + nh_boost + ed_adj), 10000)
        plays2 == team.off_plays + oppDefense.def_plays
        plays_adj == MathRound((plays2 - 11000) * 800, 11000)
        plays_adj_clamped == Max(0 - 500, Min(500, plays_adj))
        played == MathRound(paced * (10000 + plays_adj_clamped), 10000)
        hfa_drive_adj == IF isHome THEN 101 ELSE 99
    IN  MathRound(played * hfa_drive_adj, 1000)

estimateScore(team, oppDefense, isHome) ==
    Metrics(EstimatedDrives(team, oppDefense, isHome),
            team.off_epa - oppDefense.def_epa_allowed,
            team.off_sr - oppDefense.def_sr,
            team.off_rz - oppDefense.def_rz,
            oppDefense.def_3out - 240,
            strength_adj(team, oppDefense),
            isHome)

InitScenario ==
    /\ homeMetrics = NeutralMetrics(LeagueDrives, TRUE)
    /\ awayMetrics = NeutralMetrics(LeagueDrives, FALSE)
    /\ hfa \in HfaGrid
    /\ totalDrives = 0 /\ homeDrives = 0 /\ awayDrives = 0
    /\ homeScore = 0 /\ awayScore = 0 /\ d = 0
    /\ pc = "project"
    /\ drive = NoDrive
    /\ IdleDB
    /\ variant = "part_002"
    /\ numSimulations = 0 /\ i = 0
    /\ run \in [home : TeamProfiles, away : TeamProfiles]
    /\ homeScores = <<>> /\ awayScores = <<>> /\ totals = <<>> /\ margins = <<>>
    /\ simulationResults = Null
    /\ mcpc = "idle"

\* runMonteCarloSimulation lines 411-421
EstimateScores ==
    /\ pc = "project"
    /\ homeMetrics' = estimateScore(run.home, run.away, TRUE)
    /\ awayMetrics' = estimateScore(run.away, run.home, FALSE)
    /\ pc' = "start"
    /\ UNCHANGED <<hfa, totalDrives, homeDrives, awayDrives, homeScore,
                   awayScore, d, drive>>
    /\ UNCHANGED mcVars
    /\ UNCHANGED dbVars

NextScenario == EstimateScores \/ GameStart

SpecScenario == InitScenario /\ [][NextScenario]_vars

\* C21: Scenario A: both teams are the league baseline and home-field
\* advantage is 0; then the two sides have the same drive-outcome
\* probabilities, the same expected drive estimate and the same allotted drive
\* count.
C21_ScenarioASymmetry ==
    (/\ pc = "home" /\ hfa = 0
     /\ run.home = LeagueBaseline /\ run.away = LeagueBaseline) =>
        /\ DriveProbabilities(homeMetrics, hfa) = DriveProbabilities(awayMetrics, hfa)
        /\ homeMetrics.drives = awayMetrics.drives
        /\ homeDrives = awayDrives

(***************************************************************************)
(* The weather adjustment (specification SpecWeather):                     *)
(* calculateWeatherAdjustment and the expected points of App.jsx (lines    *)
(* 600-623, 789-794), computeWeatherTotalDelta and the adjusted means of   *)
(* part_001 (lines 345-382).  Points are in 1/1000; the wind is in whole   *)
(* mph and the temperature in whole degrees.                               *)
(***************************************************************************)
MaxWind == 40        \* windMPH: 0 .. MaxWind (and NaN where the field allows it)

\* App.jsx lines 600-623 with params.weather (lines 165-177)
calculateWeatherAdjustment_DomeAdds(settings) ==
    (IF settings.isDome THEN 1500 ELSE 0)
      + (IF ~IsNaN(settings.windMPH) /\ settings.windMPH > 10
         THEN (settings.windMPH - 10) * (0 - 60) ELSE 0)
      + (IF ~IsNaN(settings.temperature) /\ settings.temperature < 25
         THEN 0 - 1500 ELSE 0)
      + (CASE settings.precipitation = "light_rain" -> 0 - 1000
           [] settings.precipitation = "heavy_rain" -> 0 - 2000
           [] settings.precipitation = "snow" -> 0 - 2500
           [] OTHER -> 0)

calculateWeatherAdjustment(settings) ==
    IF settings.isDome THEN 1500
    ELSE (IF ~IsNaN(settings.windMPH) /\ settings.windMPH > 10
          THEN (settings.windMPH - 10) * (0 - 60) ELSE 0)
           + (IF ~IsNaN(settings.temperature) /\ settings.temperature < 25
              THEN 0 - 1500 ELSE 0)
           + (CASE settings.precipitation = "light_rain" -> 0 - 1000
                [] settings.precipitation = "heavy_rain" -> 0 - 2000
                [] settings.precipitation = "snow" -> 0 - 2500
                [] OTHER -> 0)

\* part_001 lines 345-358 with weatherParams (lines 88-100)
computeWeatherTotalDelta(w) ==
    IF w.isDome THEN 2500
    ELSE (IF w.windMPH > 12 THEN (w.windMPH - 12) * (0 - 70) ELSE 0)
           + (IF w.temperature < 20 THEN 0 - 1000 ELSE 0)
           + (CASE w.precipitation = "light_rain" -> 0 - 800
                [] w.precipitation = "heavy_rain" -> 0 - 1600
                [] w.precipitation = "snow" -> 0 - 2000
                [] OTHER -> 0)

\* the expected points of the two sides from their means before weather:
\* App.jsx lines 792-794, part_001 lines 379-382
ExpectedPoints(v, settings, homeBase, awayBase) ==
    IF v = "App"
    THEN LET weatherAdj == calculateWeatherAdjustment(settings)
         IN  [weatherAdjustment |-> weatherAdj,
              homeExpectedPts |-> homeBase + weatherAdj \div 2,
              awayExpectedPts |-> awayBase + weatherAdj \div 2]
    ELSE LET totalDelta == computeWeatherTotalDelta(settings)
         IN  [weatherAdjustment |-> totalDelta,
              homeExpectedPts |-> Max(0, homeBase + totalDelta \div 2),
              awayExpectedPts |-> Max(0, awayBase + totalDelta \div 2)]

\* means before weather: PPD in [1.2, 3.5] times drives in [9, 13] (App.jsx),
\* PPD in [0.8, 3.2] times drives in [9, 11.5] plus turnover points in
\* [-3, 3] (part_001)
BaseMeans(v) == IF v = "App" THEN { 10800, 22400, 45500 } ELSE { 4200, 22800, 39800 }

InitWeather ==
    /\ IdleDiscrete
    /\ IdleDB
    /\ variant \in {"App", "part_001"}
    /\ \E isDome \in BOOLEAN,
          windMPH \in { 0, 10, 11, 12, 13, MaxWind } \cup { NaN },
          temperature \in { 0 - 5, 19, 20, 24, 25, 70 } \cup { NaN },
          precipitation \in PrecipGrid,
          homeBase \in BaseMeans(variant), awayBase \in BaseMeans(variant) :
          \* part_001 stores parseFloat(...) || 0 and || 68 (lines 540, 546)
          /\ variant = "part_001" => ~IsNaN(windMPH) /\ ~IsNaN(temperature)
          /\ run = [isDome |-> isDome, windMPH |-> windMPH,
                    temperature |-> temperature, precipitation |-> precipitation,
                    homeBase |-> homeBase, awayBase |-> awayBase]
    /\ numSimulations = 0 /\ i = 0
    /\ homeScores = <<>> /\ awayScores = <<>> /\ totals = <<>> /\ margins = <<>>
    /\ simulationResults = Null
    /\ mcpc = "settings"

WeatherAdjust ==
    /\ mcpc = "settings"
    /\ simulationResults' = ExpectedPoints(variant, run, run.homeBase, run.awayBase)
    /\ mcpc' = "projected"
    /\ UNCHANGED <<variant, numSimulations, run, i, homeScores, awayScores,
                   totals, margins>>
    /\ UNCHANGED discreteVars
    /\ UNCHANGED dbVars

NextWeather == WeatherAdjust

SpecWeather == InitWeather /\ [][NextWeather]_vars

\* C22: for identical teams and settings the expected total with isDome =
\* true is strictly greater than with isDome = false, wind 0 and no
\* precipitation, by exactly the dome bonus when the temperature is not
\* below the extreme-cold threshold; with isDome = true the adjustment is the
\* dome bonus whatever wind, temperature and precipitation are; and the
\* adjustment goes half to each team.
C22_DomeBonus ==
    mcpc = "projected" =>
        LET Total(r) == r.homeExpectedPts + r.awayExpectedPts
            dome == ExpectedPoints(variant, [run EXCEPT !.isDome = TRUE],
                                   run.homeBase, run.awayBase)
            open == ExpectedPoints(variant,
                        [run EXCEPT !.isDome = FALSE, !.windMPH = 0,
                                    !.precipitation = "none"],
                        run.homeBase, run.awayBase)
            bonus == IF variant = "App" THEN 1500 ELSE 2500
            cold == ~IsNaN(run.temperature)
                      /\ run.temperature < (IF variant = "App" THEN 25 ELSE 20)
            r == simulationResults
        IN  /\ Total(dome) > Total(open)
            /\ ~cold => Total(dome) - Total(open) = bonus
            /\ run.isDome => r.weatherAdjustment = bonus /\ r = dome
            /\ 2 * (r.homeExpectedPts - run.homeBase) = r.weatherAdjustment
            /\ 2 * (r.awayExpectedPts - run.awayBase) = r.weatherAdjustment

\* a dome game entered with wind, snow and extreme cold
C22_Witness ==
    /\ mcpc = "projected" /\ variant = "App"
    /\ run.isDome /\ run.windMPH = MaxWind /\ run.temperature = 0 - 5
    /\ run.precipitation = "snow"
    /\ simulationResults.weatherAdjustment = 1500
    /\ simulationResults.homeExpectedPts = run.homeBase + 750

(***************************************************************************)
(* Runs on an explicit random stream (specification SpecStream).  The      *)
(* stream is a cycle of uniforms in eighths; Math.random() returns the     *)
(* uniform at the position and advances it.  A session makes MaxRuns runs  *)
(* of simulateGame (App.jsx lines 765-848) or of the callback of           *)
(* runMonteCarloSimulation (part_002 lines 414-609) on the same teams and  *)
(* settings, each from the start of the stream; the arrays and the result  *)
(* of a run stay in the state when the next run starts.                    *)
(***************************************************************************)
StreamLen == 3       \* period of the stream
MaxRuns == 2         \* runs of a session

\* the uniform at position pos, as an index of eighths
Uniform(stream, pos) == stream[(pos % Len(stream)) + 1]

\* the drives of one side (part_002 lines 298-307): simulateDrive draws a
\* second uniform only after a sustained first roll
RECURSIVE PlayDrives(_, _, _, _, _, _)
PlayDrives(metrics, h, count, stream, pos, score) ==
    IF count = 0 THEN [score |-> score, pos |-> pos]
    ELSE LET pr == DriveProbabilities(metrics, h)
             r1 == (Uniform(stream, pos) * ProbScale) \div 8
             sustained == ~(r1 < pr.p_3out)
             r2 == (Uniform(stream, pos + 1) * ProbScale) \div 8
             res == SampleDrive(pr, r1, r2)
         IN  PlayDrives(metrics, h, count - 1, stream,
                        IF sustained THEN pos + 2 ELSE pos + 1,
                        score + res.score)

\* one trial from position pos: the two scores and the next position
StreamTrialOf(v, cfg, stream, pos) ==
    IF v = "App"
    THEN LET g == SampleApp(cfg, Uniform(stream, pos), Uniform(stream, pos + 1))
         IN  [homeScore |-> g.homeScore, awayScore |-> g.awayScore, pos |-> pos + 2]
    ELSE LET al == AllocateDrives(cfg.homeMetrics, cfg.awayMetrics)
             hg == PlayDrives(cfg.homeMetrics, cfg.effectiveHFA, al.homeDrives,
                              stream, pos, 0)
             ag == PlayDrives(cfg.awayMetrics, cfg.effectiveHFA, al.awayDrives,
                              stream, hg.pos, 0)
         IN  [homeScore |-> hg.score, awayScore |-> ag.score, pos |-> ag.pos]

InitStream ==
    /\ IdleDiscrete
    /\ IdleDB
    /\ variant \in {"App", "part_002"}
    /\ numSimulations \in 1 .. MaxSims
    /\ \E cfg \in (IF variant = "App" THEN AppRuns ELSE DiscreteRuns),
          stream \in SeqsOf(UGrid(U2Steps), StreamLen) :
          run = [config |-> cfg, stream |-> stream, pos |-> 0, done |-> <<>>]
    /\ i = 0
    /\ homeScores = <<>> /\ awayScores = <<>> /\ totals = <<>> /\ margins = <<>>
    /\ simulationResults = Null
    /\ mcpc = "ready"

\* the start of a run: fresh arrays (App.jsx lines 804-808, part_002 lines
\* 424-427) and i = 0; the stream is replayed from its start
StartRun_KeepsArrays ==
    /\ mcpc = "ready"
    /\ Len(run.done) < MaxRuns
    /\ i' = 0
    /\ run' = [run EXCEPT !.pos = 0]
    /\ mcpc' = "stream"
    /\ UNCHANGED <<variant, numSimulations, simulationResults, homeScores,
                   awayScores, totals, margins>>
    /\ UNCHANGED discreteVars
    /\ UNCHANGED dbVars

StartRun ==
    /\ mcpc = "ready"
    /\ Len(run.done) < MaxRuns
    /\ homeScores' = <<>> /\ awayScores' = <<>> /\ totals' = <<>> /\ margins' = <<>>
    /\ i' = 0
    /\ run' = [run EXCEPT !.pos = 0]
    /\ mcpc' = "stream"
    /\ UNCHANGED <<variant, numSimulations, simulationResults>>
    /\ UNCHANGED discreteVars
    /\ UNCHANGED dbVars

\* one iteration of the trial loop (App.jsx lines 825-845, part_002 lines
\* 430-437)
StreamTrial ==
    /\ mcpc = "stream"
    /\ i < numSimulations
    /\ LET g == StreamTrialOf(variant, run.config, run.stream, run.pos)
       IN  /\ homeScores' = Append(homeScores, g.homeScore)
           /\ awayScores' = Append(awayScores, g.awayScore)
           /\ totals' = Append(totals, JsAdd(g.homeScore, g.awayScore))
           /\ margins' = Append(margins, JsSub(g.homeScore, g.awayScore))
           /\ run' = [run EXCEPT !.pos = g.pos]
    /\ i' = i + 1
    /\ UNCHANGED <<variant, numSimulations, simulationResults, mcpc>>
    /\ UNCHANGED discreteVars
    /\ UNCHANGED dbVars

\* the reduction and setSimulationResults; the session keeps what each run
\* produced
StreamReduce ==
    /\ mcpc = "stream"
    /\ ~(i < numSimulations)
    /\ simulationResults' =
           (IF variant = "App"
            THEN calculateResults(homeScores, awayScores, totals, margins,
                     [numSimulations |-> numSimulations,
                      overUnderLine |-> Line(2 * 42, 0),
                      homeTeamTotal |-> Line(2 * 21, 0),
                      awayTeamTotal |-> Line(2 * 21, 0),
                      spreadLine |-> Line(0 - 6, 0)])
            ELSE DiscreteResults(homeScores, awayScores, totals, margins,
                                 numSimulations, Line(2 * 42, 0), Line(0 - 6, 0)))
    /\ run' = [run EXCEPT !.done =
                  Append(@, [homeScores |-> homeScores, awayScores |-> awayScores,
                             totals |-> totals, margins |-> margins,
                             result |-> simulationResults'])]
    /\ mcpc' = "ready"
    /\ UNCHANGED <<variant, numSimulations, i, homeScores, awayScores,
                   totals, margins>>
    /\ UNCHANGED discreteVars
    /\ UNCHANGED dbVars

NextStream == StartRun \/ StreamTrial \/ StreamReduce

SpecStream == InitStream /\ [][NextStream]_vars

PaceScale == 10 * 100

\* a * b / den with the IEEE rules for Infinity and NaN
JsMulDiv(a, b, den) ==
    IF IsNaN(a) \/ IsNaN(b) THEN NaN
    ELSE IF ~IsFinite(a) \/ ~IsFinite(b)
         THEN (IF a = 0 \/ b = 0 THEN NaN
               ELSE IF (a > 0) = (b > 0) THEN PosInf ELSE NegInf)
    ELSE MathRound(a * b, den)

\* Math.abs(x)
JsAbs(x) ==
    IF IsNaN(x) THEN NaN
    ELSE IF ~IsFinite(x) THEN PosInf
    ELSE IF x < 0 THEN 0 - x ELSE x

\* lines 224-227 (sd is never 0 for the league table), times the coefficient
\* of params.pace in thousandths
PaceTerm(value, mean, sd, coef) ==
    JsMulDiv(JsMulDiv(JsSub(value, mean), PaceScale, sd), coef, PaceScale)

\* params.lg (lines 93-121): mean and sd of the seven pace columns
lg_Pace(isOffense) ==
    IF isOffense
    THEN [SecSnap |-> 2851460, SecSnap_sd |-> 104923,
          PlaysPerDrive |-> 569904, PlaysPerDrive_sd |-> 44626,
          ThreeOut |-> 20567, ThreeOut_sd |-> 3964,
          Xpl |-> 8818, Xpl_sd |-> 1459,
          Pen |-> 35424, Pen_sd |-> 6476]
    ELSE [SecSnap |-> 2852732, SecSnap_sd |-> 125079,
          PlaysPerDrive |-> 569806, PlaysPerDrive_sd |-> 36760,
          ThreeOut |-> 20558, ThreeOut_sd |-> 4722,
          Xpl |-> 8802, Xpl_sd |-> 1661,
          Pen |-> 35429, Pen_sd |-> 5821]
lg_NoHuddle == 10190
lg_NoHuddle_sd == 11488
lg_PassRate_sd == 4747
lg_Drives == 10797       \* Drives: 10.79735
lg_TO_pct == 10805

\* the value of a const: the one element of a singleton
Only(S) == CHOOSE x \in S : TRUE

\* a sum of terms, left to right: NaN and Infinity absorb
RECURSIVE PlainSum(_)
PlainSum(terms) == IF terms = <<>> THEN 0 ELSE Head(terms) + PlainSum(Tail(terms))

JsSum(terms) ==
    LET vals == { terms[k] : k \in 1 .. Len(terms) }
    IN  IF NaN \in vals \/ {PosInf, NegInf} \subseteq vals THEN NaN
        ELSE IF PosInf \in vals THEN PosInf
        ELSE IF NegInf \in vals THEN NegInf
        ELSE PlainSum(terms)

\* lines 354-403: paceAdj of the offensive or the defensive columns of a team
calculatePaceAdjustment(team, isOffense) ==
    LET cells == IF isOffense THEN team.off ELSE team.def
        lg    == lg_Pace(isOffense)
    IN  Only({ JsSum(<< PaceTerm(secSnap, lg.SecSnap, lg.SecSnap_sd, 0 - 80),
                        PaceTerm(playsPerDrive, lg.PlaysPerDrive,
                                 lg.PlaysPerDrive_sd, 0 - 50),
                        PaceTerm(threeOut, lg.ThreeOut, lg.ThreeOut_sd, 90),
                        PaceTerm(xpl, lg.Xpl, lg.Xpl_sd, 30),
                        PaceTerm(noHuddle, lg_NoHuddle, lg_NoHuddle_sd, 60),
                        PaceTerm(pen, lg.Pen, lg.Pen_sd, 0 - 30),
                        PaceTerm(passRate, lg_PassRate, lg_PassRate_sd, 15) >>) :
               secSnap \in { FloatOr(cells.secSnap, lg.SecSnap) },
               playsPerDrive \in { FloatOr(cells.playsPerDrive, lg.PlaysPerDrive) },
               threeOut \in { PercentOr(cells.threeOut, lg.ThreeOut) },
               xpl \in { PercentOr(cells.xpl, lg.Xpl) },
               noHuddle \in { PercentOr(cells.noHuddle, lg_NoHuddle) },
               pen \in { FloatOr(cells.pen, lg.Pen) },
               passRate \in { PercentOr(cells.passRate, lg_PassRate) } })

\* line 429: the average of the four pace adjustments
gamePaceAdj(homePace, awayPace, homeDefPace, awayDefPace) ==
    JsMulDiv(JsSum(<< homePace, awayPace, homeDefPace, awayDefPace >>), 1, 4)

\* lines 433 and 436: totalGameDrives / 2
baseDrivesEach(paceAdj) ==
    JsMulDiv(lg_Drives, JsSum(<< PaceScale, paceAdj >>), PaceScale)

\* lines 440-449: half of turnoverSwing
HalfTurnoverSwing(base, homeTO, awayTO) ==
    JsMulDiv(JsSub(JsMulDiv(base, awayTO, ParseScale),
                   JsMulDiv(base, homeTO, ParseScale)), 4, 10)

\* lines 453-454
cappedPaceEdge(homePace, awayPace) ==
    clamp(JsMulDiv(JsSub(homePace, awayPace), 3, 10), 0 - 300, 300)

\* lines 457-458
RawDrives(base, shift) ==
    [homeDrives |-> JsAdd(base, shift), awayDrives |-> JsSub(base, shift)]

\* lines 462-472: the hard cap of the differential
CapDifferential(raw) ==
    Only({ IF IsNaN(differential) \/ ~(JsAbs(differential) > PaceScale) THEN raw
           ELSE Only({ IF differential > 0
                       THEN [homeDrives |-> JsSub(raw.homeDrives, excess),
                             awayDrives |-> JsAdd(raw.awayDrives, excess)]
                       ELSE [homeDrives |-> JsAdd(raw.homeDrives, excess),
                             awayDrives |-> JsSub(raw.awayDrives, excess)] :
                       excess \in { JsMulDiv(JsSub(JsAbs(differential), PaceScale), 1, 2) } }) :
           differential \in { JsSub(raw.homeDrives, raw.awayDrives) } })

\* lines 475-476 and 484-493: the final bounds and the returned record
FinalBounds(paceAdj, base, capped) ==
    Only({ [homeDrives |-> hd, awayDrives |-> ad,
            totalGameDrives |-> JsMulDiv(base, 2, 1),
            differential |-> JsSub(hd, ad),
            gamePaceAdj |-> paceAdj,
            unclamped |-> hd = capped.homeDrives /\ ad = capped.awayDrives] :
           hd \in { clamp(capped.homeDrives, 9 * PaceScale, 13 * PaceScale) },
           ad \in { clamp(capped.awayDrives, 9 * PaceScale, 13 * PaceScale) } })

\* lines 429-472 on the four pace adjustments and the two turnover rates
DrivesModel(homePace, awayPace, paceAdj, homeTO, awayTO) ==
    Only({ Only({ FinalBounds(paceAdj, base, capped) :
                  capped \in { CapDifferential(RawDrives(base, shift)) } }) :
           base \in { baseDrivesEach(paceAdj) },
           shift \in { JsAdd(HalfTurnoverSwing(baseDrivesEach(paceAdj), homeTO, awayTO),
                             cappedPaceEdge(homePace, awayPace)) } })

\* lines 420-494
calculateExpectedDrives(homeTeam_, awayTeam_) ==
    Only({ Only({ DrivesModel(homePace, awayPace, paceAdj, homeTO, awayTO) :
                  paceAdj \in { gamePaceAdj(homePace, awayPace, homeDefPace, awayDefPace) } }) :
           homePace \in { calculatePaceAdjustment(homeTeam_, TRUE) },
           awayPace \in { calculatePaceAdjustment(awayTeam_, TRUE) },
           homeDefPace \in { calculatePaceAdjustment(homeTeam_, FALSE) },
           awayDefPace \in { calculatePaceAdjustment(awayTeam_, FALSE) },
           homeTO \in { PercentOr(homeTeam_.to, lg_TO_pct) },
           awayTO \in { PercentOr(awayTeam_.to, lg_TO_pct) } })

\* the pace columns of a team: none, a fast no-huddle offense, a slow one,
\* a cell that reads Infinity
NoPace ==
    [secSnap |-> <<>>, playsPerDrive |-> <<>>, threeOut |-> <<>>, xpl |-> <<>>,
     noHuddle |-> <<>>, pen |-> <<>>, passRate |-> <<>>]
PaceCells ==
    { NoPace,
      [NoPace EXCEPT !.secSnap = << "2", "2" >>, !.noHuddle = << "6", "0", "%" >>],
      [NoPace EXCEPT !.secSnap = << "3", "3" >>, !.playsPerDrive = << "7", ".", "5" >>],
      [NoPace EXCEPT !.secSnap = << "I", "n", "f", "i", "n", "i", "t", "y" >>] }
TOCells == { <<>>, << "4", "%" >>, << "1", "7", "%" >> }
PaceTeams == [off : PaceCells, def : { c \in PaceCells : c.secSnap # << "2", "2" >> }, to : TOCells]

InitPace ==
    /\ IdleDiscrete
    /\ IdleDB
    /\ variant = "App"
    /\ run \in [homeTeam : PaceTeams, awayTeam : PaceTeams]
    /\ numSimulations = 0 /\ i = 0
    /\ homeScores = <<>> /\ awayScores = <<>> /\ totals = <<>> /\ margins = <<>>
    /\ simulationResults = Null
    /\ mcpc = "teams"

\* App.jsx line 776: const drives = calculateExpectedDrives(homeTeam, awayTeam)
ExpectedDrives ==
    /\ mcpc = "teams"
    /\ simulationResults' = calculateExpectedDrives(run.homeTeam, run.awayTeam)
    /\ mcpc' = "drives"
    /\ UNCHANGED <<variant, numSimulations, run, i, homeScores, awayScores,
                   totals, margins>>
    /\ UNCHANGED discreteVars
    /\ UNCHANGED dbVars

NextPace == ExpectedDrives

SpecPace == InitPace /\ [][NextPace]_vars

\* the range, cap and sum statements on one returned record
DrivesContract(out) ==
    /\ out.homeDrives >= 9 * PaceScale /\ out.homeDrives <= 13 * PaceScale
    /\ out.awayDrives >= 9 * PaceScale /\ out.awayDrives <= 13 * PaceScale
    /\ out.differential >= 0 - PaceScale /\ out.differential <= PaceScale
    /\ out.unclamped => JsAdd(out.homeDrives, out.awayDrives) = out.totalGameDrives

\* C24: for all team inputs the homeDrives and awayDrives returned by
\* calculateExpectedDrives lie in [9.0, 13.0], the differential lies in
\* [-1.0, 1.0], and when the final clamp changes neither value their sum is
\* totalGameDrives.
C24_ExpectedDrivesContract ==
    mcpc = "drives" => DrivesContract(simulationResults)

\* the same statement for teams whose pace columns all read finite numbers
ExpectedDrives_FiniteTeams ==
    (/\ mcpc = "drives"
     /\ IsFinite(simulationResults.gamePaceAdj)) =>
        DrivesContract(simulationResults)

\* finite teams for which the cap and the clamp both act
ExpectedDrives_CapAndClamp ==
    /\ mcpc = "drives"
    /\ IsFinite(simulationResults.gamePaceAdj)
    /\ ~simulationResults.unclamped
    /\ simulationResults.differential \notin {0, PaceScale, 0 - PaceScale}

(***************************************************************************)
(* The market sections of a result (on SpecMC).  A line that was left      *)
(* empty or does not parse is the NaN line: part_001 (lines 425-447) and   *)
(* part_002 (lines 456-476, 516-530) keep the typed text and test          *)
(* marketTotal && !isNaN(parseFloat(marketTotal)); App.jsx stores          *)
(* parseFloat(e.target.value) in gameSettings (lines 1272, 1285) and       *)
(* calculateResults builds both sections without a test (lines 933-967).   *)
(***************************************************************************)
\* a section is present only with a line that is a number
SectionHasLine(section) == section # Null => section.line.kind = "num"

\* C25: the result holds the over/under section, and the spread-cover
\* section, if and only if the corresponding market line was supplied and
\* parses as a number; with the line left empty the section is null.
C25_MarketSections ==
    mcpc = "done" =>
        /\ SectionHasLine(simulationResults.overUnder)
        /\ variant = "App" => SectionHasLine(simulationResults.spread)
        /\ variant = "part_002" => SectionHasLine(simulationResults.spreadCoverage)

\* the same statement for the two simulators that test the line
MarketSections_Tested ==
    (mcpc = "done" /\ variant # "App") =>
        /\ SectionHasLine(simulationResults.overUnder)
        /\ variant = "part_002" => SectionHasLine(simulationResults.spreadCoverage)

(***************************************************************************)
(* The trial loop (App.jsx lines 824-845, part_002 lines 424-437) and the  *)
(* divisor of the reduction (App.jsx line 864: n = settings.numSimulations;*)
(* part_002 lines 466-468: overs / numSimulations).                        *)
(***************************************************************************)
\* after i iterations every array holds i entries, derived per trial
TrialArrays ==
    /\ Len(homeScores) = i /\ Len(awayScores) = i
    /\ Len(totals) = i /\ Len(margins) = i
    /\ \A k \in 1 .. i :
          /\ totals[k] = JsAdd(homeScores[k], awayScores[k])
          /\ margins[k] = JsSub(homeScores[k], awayScores[k])

\* at the end of the loop N trials are recorded and N is the divisor
TrialCount ==
    mcpc = "done" =>
        /\ Len(homeScores) = numSimulations
        /\ simulationResults.numSimulations = Len(homeScores)

\* C26: after k iterations the home-score, away-score, total and margin
\* arrays each hold k entries with totals[i] = homeScores[i] + awayScores[i]
\* and margins[i] = homeScores[i] - awayScores[i]; when the loop ends exactly
\* N = numSimulations trials are recorded, and every reported percentage and
\* mean divides by that number of recorded trials.
C26_TrialLoop == TrialArrays /\ TrialCount

\* the same statement for the two simulators and positive counts of SpecMC
TrialLoop_PositiveCount ==
    variant # "part_001" => (TrialArrays /\ TrialCount)

(***************************************************************************)
(* The drive split of simulateGameDiscrete (part_002 lines 275-292), on    *)
(* SpecAlloc.                                                              *)
(***************************************************************************)
\* C27: the team with the strictly higher expected-drive estimate never
\* receives fewer drives than the other, and the two allotted counts differ
\* by at most 2.
C27_DriveSplitTilt ==
    pc = "home" =>
        /\ homeMetrics.drives > awayMetrics.drives => homeDrives >= awayDrives
        /\ awayMetrics.drives > homeMetrics.drives => awayDrives >= homeDrives
        /\ homeDrives - awayDrives \in (0 - 2) .. 2

\* the away side has the higher estimate by more than the tilt bound and
\* plays two drives more
C27_Witness ==
    /\ pc = "home"
    /\ awayMetrics.drives > homeMetrics.drives + 6 * DriveScale
    /\ awayDrives = homeDrives + 2
    /\ totalDrives \in (MIN_TOTAL + 2) .. (MAX_TOTAL - 2)

(***************************************************************************)
(* Uploads, selections and runs of part_002 on rosters that differ         *)
(* (specification SpecRoster): handleFileUpload (lines 132-169) replaces   *)
(* teamDB and teamList and leaves homeTeam and awayTeam as they are; the   *)
(* guard of runMonteCarloSimulation (line 404) tests the two names for     *)
(* emptiness only, and projectTeamFromDB (line 172) reads                  *)
(* teamDB[teamName] || {}.                                                 *)
(***************************************************************************)
RosterNames == { << "K", "C" >>, << "S", "F" >> }

RosterFiles ==
    { [readable |-> FALSE, rows |-> <<>>] }
        \cup { [readable |-> TRUE, rows |-> r] :
                 r \in UNION { SeqsOf({ [col |-> "Team", name |-> t] : t \in RosterNames }, n) :
                                 n \in 1 .. MaxRows } }

InitRoster ==
    /\ IdleDiscrete
    /\ IdleDB
    /\ variant = "part_002"
    /\ numSimulations = 0 /\ i = 0
    /\ run = Null
    /\ homeScores = <<>> /\ awayScores = <<>> /\ totals = <<>> /\ margins = <<>>
    /\ simulationResults = Null
    /\ mcpc = "ui"

NextRoster ==
    \/ \E file \in RosterFiles : handleFileUpload(file)
    \/ SelectTeam
    \/ runSimulation

SpecRoster == InitRoster /\ [][NextRoster]_vars

\* C29: in part_002, after any sequence of uploads, team selections and
\* runs, whenever runMonteCarloSimulation proceeds past its guard, homeTeam
\* and awayTeam are both keys of teamDB; a team selected before a later
\* upload that no longer contains it is not simulated from default
\* statistics.
C29_RunsOnLoadedTeams ==
    [][ (simulationResults' # Null /\ simulationResults' # simulationResults) =>
            /\ homeTeam \in DOMAIN teamDB
            /\ awayTeam \in DOMAIN teamDB ]_vars

(***************************************************************************)
(* The run lifecycle of App.jsx (specifications SpecLife and               *)
(* SpecLifeFair): runSimulation (lines 744-763) and the callback it hands  *)
(* to setTimeout.  run holds the pending timers with the teams their       *)
(* closures captured, i counts the runs started, and mcpc names the last   *)
(* effect: "alert", "scheduled", "returned" or "threw".  The RUN button is *)
(* disabled while isSimulating (line 1389); its test of the two teams      *)
(* repeats the guard of the function, which is the one modelled.           *)
(***************************************************************************)
MaxClicks == 2       \* runs started in a session

InitLife ==
    /\ IdleDiscrete
    /\ IdleDB
    /\ variant = "App"
    /\ numSimulations = 0 /\ i = 0
    /\ run = <<>>
    /\ homeScores = <<>> /\ awayScores = <<>> /\ totals = <<>> /\ margins = <<>>
    /\ simulationResults = Null
    /\ mcpc = "ui"

\* lines 744-751 and the setTimeout call
runSimulationClick ==
    /\ ~isSimulating
    /\ IF homeTeam = <<>> \/ awayTeam = <<>>
       THEN /\ mcpc' = "alert"
            /\ UNCHANGED <<isSimulating, run, i>>
       ELSE /\ i < MaxClicks
            /\ isSimulating' = TRUE
            /\ run' = Append(run, [homeTeam |-> homeTeam, awayTeam |-> awayTeam,
                                   id |-> i + 1])
            /\ i' = i + 1
            /\ mcpc' = "scheduled"
    /\ UNCHANGED <<variant, numSimulations, homeScores, awayScores, totals,
                   margins, simulationResults>>
    /\ UNCHANGED <<teamDB, teamList, homeTeam, awayTeam, uploadStatus>>
    /\ UNCHANGED discreteVars

\* the callback with the finally block inside the try block
runSimulationTimeout_NoFinally ==
    /\ run # <<>>
    /\ \E returns \in BOOLEAN :
          IF returns
          THEN /\ simulationResults' = Head(run)
               /\ isSimulating' = FALSE
               /\ mcpc' = "returned"
          ELSE /\ mcpc' = "threw"
               /\ UNCHANGED <<simulationResults, isSimulating>>
    /\ run' = Tail(run)
    /\ UNCHANGED <<variant, numSimulations, i, homeScores, awayScores, totals,
                   margins>>
    /\ UNCHANGED <<teamDB, teamList, homeTeam, awayTeam, uploadStatus>>
    /\ UNCHANGED discreteVars

\* lines 752-762: try { setSimulationResults(simulateGame(...)) }
\* catch { alert } finally { setIsSimulating(false) }; simulateGame returns
\* or throws
runSimulationTimeout ==
    /\ run # <<>>
    /\ \E returns \in BOOLEAN :
          IF returns
          THEN /\ simulationResults' = Head(run)
               /\ mcpc' = "returned"
          ELSE /\ mcpc' = "threw"
               /\ UNCHANGED simulationResults
    /\ isSimulating' = FALSE
    /\ run' = Tail(run)
    /\ UNCHANGED <<variant, numSimulations, i, homeScores, awayScores, totals,
                   margins>>
    /\ UNCHANGED <<teamDB, teamList, homeTeam, awayTeam, uploadStatus>>
    /\ UNCHANGED discreteVars

NextLife ==
    \/ \E file \in RosterFiles : handleFileUploadApp(file)
    \/ SelectTeam
    \/ runSimulationClick
    \/ runSimulationTimeout

SpecLife == InitLife /\ [][NextLife]_vars

\* a timer that was set fires
SpecLifeFair == SpecLife /\ WF_vars(runSimulationTimeout)

\* C28: runSimulation with either team unselected changes no state;
\* otherwise it sets isSimulating to true, and the deferred callback
\* eventually sets isSimulating back to false whether simulateGame returns
\* or throws; simulationResults is replaced only when simulateGame returns
\* and is left as it was when it throws.
C28_RunLifecycle ==
    /\ [][ (mcpc' = "alert" /\ mcpc # "alert") =>
               /\ homeTeam = <<>> \/ awayTeam = <<>>
               /\ UNCHANGED <<isSimulating, simulationResults, run, i, teamDB,
                              teamList, homeTeam, awayTeam, uploadStatus>> ]_vars
    /\ [][ Len(run') > Len(run) =>
               /\ homeTeam # <<>> /\ awayTeam # <<>>
               /\ isSimulating' ]_vars
    /\ isSimulating ~> ~isSimulating
    /\ [][ simulationResults' # simulationResults => mcpc' = "returned" ]_vars
    /\ [][ (Len(run') < Len(run) /\ mcpc' = "threw") =>
               simulationResults' = simulationResults ]_vars

\* a run that threw after an earlier one returned: the earlier result is
\* still there and the flag is down
C28_Witness ==
    /\ mcpc = "threw"
    /\ ~isSimulating
    /\ simulationResults # Null
    /\ simulationResults.id = 1
    /\ i = 2

(***************************************************************************)
(* The alt-line table of calculateResults (App.jsx lines 897-915 and       *)
(* 961-967), specification SpecAlt: the reduction applied to samples of    *)
(* margins drawn from a grid, with the main spread line on and off the     *)
(* alt lines.                                                              *)
(***************************************************************************)
MarginGrid == { 0 - 14, 0 - 4, 0 - 3, 0, 3, 7, NaN, PosInf }

\* main spread lines: every alt line, -8, and a cleared field
AltSpreadLines ==
    { Line(altLines[a], 0) : a \in 1 .. Len(altLines) }
        \cup { Line(0 - 16, 0), NaNLine }

InitAlt ==
    /\ IdleDiscrete
    /\ IdleDB
    /\ variant = "App"
    /\ numSimulations \in 1 .. MaxSims
    /\ run \in AppRuns
    /\ i = numSimulations
    /\ margins \in SeqsOf(MarginGrid, numSimulations)
    /\ awayScores = [ k \in 1 .. numSimulations |-> 20 ]
    /\ homeScores = [ k \in 1 .. numSimulations |-> JsAdd(margins[k], 20) ]
    /\ totals = [ k \in 1 .. numSimulations |-> JsAdd(homeScores[k], awayScores[k]) ]
    /\ simulationResults = Null
    /\ mcpc = "loop"

\* App.jsx line 847 with the spread line of the settings
ReduceAlt ==
    /\ mcpc = "loop"
    /\ ~(i < numSimulations)
    /\ \E sp \in AltSpreadLines :
          simulationResults' =
              calculateResults(homeScores, awayScores, totals, margins,
                  [numSimulations |-> numSimulations,
                   overUnderLine |-> Line(2 * 42, 0),
                   homeTeamTotal |-> Line(2 * 21, 0),
                   awayTeamTotal |-> Line(2 * 21, 0),
                   spreadLine |-> sp])
    /\ mcpc' = "done"
    /\ UNCHANGED <<variant, numSimulations, run, i, homeScores, awayScores,
                   totals, margins>>
    /\ UNCHANGED discreteVars
    /\ UNCHANGED dbVars

NextAlt == ReduceAlt

SpecAlt == InitAlt /\ [][NextAlt]_vars

\* C30: for every sample of margins the home cover percentage of the alt
\* lines is non-decreasing as the alt line goes from -14 to +14, and for an
\* alt line equal to the main spread line the alt-line coverPct equals the
\* main homeCoverPct (both count margin > -line, pushes excluded).  The
\* percentages are counts over the same positive n.
C30_AltLineTable ==
    mcpc = "done" =>
        LET alt == simulationResults.spread.altLines
        IN  /\ \A a \in 1 .. (Len(alt) - 1) :
                  /\ alt[a].line.h2 < alt[a + 1].line.h2
                  /\ alt[a].coverCount <= alt[a + 1].coverCount
            /\ \A a \in 1 .. Len(alt) :
                  alt[a].line = simulationResults.spread.line =>
                      alt[a].coverCount = simulationResults.spread.homeCoverCount

\* the main line is the alt line -3, one trial is a push on it, and the
\* table rises between its ends
C30_Witness ==
    /\ mcpc = "done"
    /\ simulationResults.spread.line = Line(0 - 6, 0)
    /\ simulationResults.spread.pushCount > 0
    /\ simulationResults.spread.altLines[1].coverCount
           < simulationResults.spread.altLines[Len(altLines)].coverCount

====
